---------------------------- MODULE Spec2Model ----------------------------
(***************************************************************************)
(* A model of the Live-Quant-Analytics backend: the Binance feed client    *)
(* (data_handler.py, BinanceWebSocketClient), the tick aggregator          *)
(* (data_handler.py, TickBuffer), the rolling-history analytics engine     *)
(* (analytics.py, AnalyticsEngine), the indicator functions (utils.py) and *)
(* the background tasks that connect them (main.py).                       *)
(*                                                                         *)
(* Numbers.  The program computes with Python floats.  The model computes  *)
(* with exact rationals <<n, d>> (d > 0, lowest terms), so two equal       *)
(* values are equal tuples; a square root is kept as a signed root         *)
(* [sgn, sq], the number sgn * sqrt(sq).  Floating-point rounding is not   *)
(* modelled.                                                               *)
(***************************************************************************)
EXTENDS Integers, Sequences, FiniteSets, TLC

(***************************************************************************)
(* Exact rational arithmetic                                               *)
(***************************************************************************)
Abs(x) == IF x < 0 THEN -x ELSE x

RECURSIVE Gcd(_, _)
Gcd(a, b) == IF b = 0 THEN a ELSE Gcd(b, a % b)

\* The rational n/d (d # 0) in lowest terms with a positive denominator.
Rat(n, d) ==
    LET g == Gcd(Abs(n), Abs(d))
        s == IF d < 0 THEN -1 ELSE 1
    IN  <<(s * n) \div g, (s * d) \div g>>

R(i) == <<i, 1>>
Zero == <<0, 1>>
RAdd(a, b) == Rat(a[1] * b[2] + b[1] * a[2], a[2] * b[2])
RSub(a, b) == Rat(a[1] * b[2] - b[1] * a[2], a[2] * b[2])
RMul(a, b) == Rat(a[1] * b[1], a[2] * b[2])
\* Only used with b # Zero: the callers model Python's ZeroDivisionError.
RDiv(a, b) == Rat(a[1] * b[2], a[2] * b[1])
RLt(a, b) == a[1] * b[2] < b[1] * a[2]
RLe(a, b) == a[1] * b[2] <= b[1] * a[2]
RAbs(a) == <<Abs(a[1]), a[2]>>
RMax(a, b) == IF RLt(a, b) THEN b ELSE a
RMin(a, b) == IF RLt(b, a) THEN b ELSE a
\* The integer part of a non-negative rational.
RFloor(a) == a[1] \div a[2]
RSgn(a) == IF a[1] > 0 THEN 1 ELSE IF a[1] < 0 THEN -1 ELSE 0

\* sum(xs): the arithmetic is exact, so the sum does not depend on how the
\* additions are grouped; halving keeps the evaluation shallow.
RECURSIVE RSum(_)
RSum(xs) ==
    IF xs = <<>> THEN Zero
    ELSE IF Len(xs) = 1 THEN xs[1]
    ELSE RAdd(RSum(SubSeq(xs, 1, Len(xs) \div 2)),
              RSum(SubSeq(xs, Len(xs) \div 2 + 1, Len(xs))))

\* xs[-k:] of Python for 0 < k.
LastN(xs, k) == IF Len(xs) <= k THEN xs ELSE SubSeq(xs, Len(xs) - k + 1, Len(xs))

\* The signed root sgn * sqrt(sq): math.sqrt(q) is Root(q).
Root(q) == [sgn |-> RSgn(q), sq |-> q]
\* The rational a as a signed root.
AsRoot(a) == [sgn |-> RSgn(a), sq |-> RMul(a, a)]
RootZero == Root(Zero)
\* a < b for signed roots.
RootLt(a, b) ==
    IF a.sgn # b.sgn THEN a.sgn < b.sgn
    ELSE IF a.sgn = 1 THEN RLt(a.sq, b.sq)
    ELSE IF a.sgn = -1 THEN RLt(b.sq, a.sq)
    ELSE FALSE

(***************************************************************************)
(* utils.py: the indicator functions                                       *)
(***************************************************************************)
calculate_mean(values) ==
    IF values = <<>> THEN Zero ELSE RDiv(RSum(values), R(Len(values)))

\* sum((x - m) ** 2 for x in values) / len(values)
Variance(values, m) ==
    RDiv(RSum([i \in 1..Len(values) |->
                  RMul(RSub(values[i], m), RSub(values[i], m))]),
         R(Len(values)))

\* "mean or calculate_mean(values)": a mean of 0.0 is falsy and is recomputed.
calculate_std(values, mean) ==
    IF Len(values) < 2 THEN RootZero
    ELSE LET m == IF mean = Zero THEN calculate_mean(values) ELSE mean
         IN  Root(Variance(values, m))

\* A vwap that ignores the volumes.
VwapUnweighted(prices, volumes) ==
    IF prices = <<>> \/ volumes = <<>> \/ Len(prices) # Len(volumes) THEN Zero
    ELSE calculate_mean(prices)

\* A vwap that falls back to the mean of the prices when no volume was traded.
VwapMeanWithoutVolume(prices, volumes) ==
    IF prices = <<>> \/ volumes = <<>> \/ Len(prices) # Len(volumes) THEN Zero
    ELSE LET num == RSum([i \in 1..Len(prices) |-> RMul(prices[i], volumes[i])])
             denom == RSum(volumes)
         IN  IF RLt(Zero, denom) THEN RDiv(num, denom) ELSE calculate_mean(prices)

calculate_vwap(prices, volumes) ==
    IF prices = <<>> \/ volumes = <<>> \/ Len(prices) # Len(volumes) THEN Zero
    ELSE LET num == RSum([i \in 1..Len(prices) |-> RMul(prices[i], volumes[i])])
             denom == RSum(volumes)
         IN  IF RLt(Zero, denom) THEN RDiv(num, denom) ELSE Zero

calculate_sma(values, period) ==
    IF Len(values) < period THEN calculate_mean(values)
    ELSE calculate_mean(LastN(values, period))

RECURSIVE EmaFold(_, _, _)
EmaFold(ema, rest, k) ==
    IF rest = <<>> THEN ema
    ELSE EmaFold(RAdd(RMul(Head(rest), k), RMul(ema, RSub(R(1), k))), Tail(rest), k)

calculate_ema(values, period) ==
    IF values = <<>> THEN Zero
    ELSE IF Len(values) < period THEN calculate_mean(values)
    ELSE EmaFold(Head(values), Tail(values), Rat(2, period + 1))

\* An RSI that is computed from `period` values on.
RsiFromPeriod(values, period) ==
    IF Len(values) < period THEN R(50)
    ELSE LET changes == [i \in 1..(Len(values) - 1) |-> RSub(values[i + 1], values[i])]
             recent == LastN(changes, period)
             gains == [i \in 1..Len(recent) |-> RMax(recent[i], Zero)]
             losses == [i \in 1..Len(recent) |-> RAbs(RMin(recent[i], Zero))]
             avg_gain == RDiv(RSum(gains), R(period))
             avg_loss == RDiv(RSum(losses), R(period))
         IN  IF avg_loss = Zero
             THEN (IF RLt(Zero, avg_gain) THEN R(100) ELSE R(50))
             ELSE RSub(R(100), RDiv(R(100), RAdd(R(1), RDiv(avg_gain, avg_loss))))

calculate_rsi(values, period) ==
    IF Len(values) < period + 1 THEN R(50)
    ELSE LET changes == [i \in 1..(Len(values) - 1) |-> RSub(values[i + 1], values[i])]
             recent == LastN(changes, period)
             gains == [i \in 1..Len(recent) |-> RMax(recent[i], Zero)]
             losses == [i \in 1..Len(recent) |-> RAbs(RMin(recent[i], Zero))]
             avg_gain == RDiv(RSum(gains), R(period))
             avg_loss == RDiv(RSum(losses), R(period))
         IN  IF avg_loss = Zero
             THEN (IF RLt(Zero, avg_gain) THEN R(100) ELSE R(50))
             ELSE RSub(R(100), RDiv(R(100), RAdd(R(1), RDiv(avg_gain, avg_loss))))

\* (value - mean) / std as a signed root; 0.0 when std == 0.
calculate_z_score(value, mean, std) ==
    IF std.sgn = 0 THEN RootZero
    ELSE LET diff == RSub(value, mean)
         IN  [sgn |-> RSgn(diff), sq |-> RDiv(RMul(diff, diff), std.sq)]

\* The sign of a - b.
RCmp(a, b) == IF RLt(a, b) THEN -1 ELSE IF RLt(b, a) THEN 1 ELSE 0

\* detect_trend, given the sign of current_price - sma and that of ema - sma.
TrendOf(price_sma, ema_sma) ==
    IF price_sma > 0 /\ ema_sma < 0 THEN "uptrend"
    ELSE IF price_sma < 0 /\ ema_sma > 0 THEN "downtrend"
    ELSE "neutral"

detect_trend(sma, ema, current_price) ==
    TrendOf(RCmp(current_price, sma), RCmp(ema, sma))

(***************************************************************************)
(* utils.py: calculate_ema on a long series                                *)
(*                                                                         *)
(* The ema is linear in the prices and its weights add up to 1, so the     *)
(* order of the ema of the prices and a bound is the order of the ema of   *)
(* the integers w * (price - low) and the integer w * (bound - low), for   *)
(* any rational low and any w > 0: low is the least of the prices and the  *)
(* bound and w a common multiple of the denominators, so that all are      *)
(* natural numbers.  After j steps the ema of such integers is             *)
(* E / (period + 1)^j for an integer E:                                    *)
(* E' = 2 * val * (period + 1)^j + (period - 1) * E.  E and the power      *)
(* outgrow the machine integers after a few steps, so both are kept as     *)
(* natural numbers in digits of base BigBase, least significant first.     *)
(***************************************************************************)
BigBase == 10000

\* The digits of the number whose digits, not yet carried, are `digits`.
RECURSIVE BigCarry(_, _)
BigCarry(digits, carry) ==
    IF digits = <<>>
    THEN (IF carry = 0 THEN <<>> ELSE <<carry % BigBase>> \o BigCarry(<<>>, carry \div BigBase))
    ELSE <<(Head(digits) + carry) % BigBase>>
         \o BigCarry(Tail(digits), (Head(digits) + carry) \div BigBase)

\* The digits of a with the leading zeros removed.
RECURSIVE BigTrim(_)
BigTrim(a) == IF a # <<>> /\ a[Len(a)] = 0 THEN BigTrim(SubSeq(a, 1, Len(a) - 1)) ELSE a

BigOf(n) == BigCarry(<<>>, n)
BigDigit(a, i) == IF i <= Len(a) THEN a[i] ELSE 0
\* a * k for a natural number k such that k * BigBase fits a machine integer.
BigScale(a, k) == BigTrim(BigCarry([i \in 1..Len(a) |-> a[i] * k], 0))
BigAdd(a, b) ==
    BigCarry([i \in 1..(IF Len(a) > Len(b) THEN Len(a) ELSE Len(b)) |->
                 BigDigit(a, i) + BigDigit(b, i)], 0)

\* The digits of the number whose digits, not yet borrowed, are `digits`.
RECURSIVE BigBorrow(_, _)
BigBorrow(digits, borrow) ==
    IF digits = <<>> THEN <<>>
    ELSE IF Head(digits) - borrow < 0
         THEN <<Head(digits) - borrow + BigBase>> \o BigBorrow(Tail(digits), 1)
         ELSE <<Head(digits) - borrow>> \o BigBorrow(Tail(digits), 0)

\* a - b for a >= b.
BigSub(a, b) == BigTrim(BigBorrow([i \in 1..Len(a) |-> a[i] - BigDigit(b, i)], 0))

RECURSIVE BigMul(_, _)
BigMul(a, b) ==
    IF a = <<>> \/ b = <<>> THEN <<>>
    ELSE BigAdd(BigScale(a, Head(b)), BigTrim(<<0>> \o BigMul(a, Tail(b))))

\* The sign of a - b.
BigCmp(a, b) ==
    IF Len(a) # Len(b) THEN (IF Len(a) < Len(b) THEN -1 ELSE 1)
    ELSE IF a = b THEN 0
    ELSE LET top == CHOOSE i \in 1..Len(a) :
                       a[i] # b[i] /\ \A j \in (i + 1)..Len(a) : a[j] = b[j]
         IN  IF a[top] < b[top] THEN -1 ELSE 1

\* calculate_ema, line 47 ("ema = val * k + ema * (1 - k)" with
\* k = 2 / (period + 1)): st is [num, den], the ema being num / den.
EmaStep(st, val, period) ==
    [num |-> BigAdd(BigMul(st.den, BigOf(2 * val)), BigScale(st.num, period - 1)),
     den |-> BigScale(st.den, period + 1)]

\* The pass of the loop of line 46 for val.  The denominator is never 0 (no
\* digits); reading it first has the previous passes computed before this
\* one, one after the other as the loop computes them.
EmaNext(st, val, period) ==
    IF st.den = <<>> THEN st ELSE EmaStep(st, val, period)

\* calculate_ema, lines 44-48, for natural numbers and len(values) >= period:
\* the ema as [num, den].
EmaExact(values, period) ==
    LET Pass[i \in 1..Len(values)] ==
            IF i = 1 THEN [num |-> BigOf(values[1]), den |-> BigOf(1)]
            ELSE EmaNext(Pass[i - 1], values[i], period)
    IN  Pass[Len(values)]

\* The least of the rationals xs (not empty), and the least common multiple
\* of the denominators of xs - low.
Least(xs) ==
    LET Pass[i \in 1..Len(xs)] == IF i = 1 THEN xs[1] ELSE RMin(Pass[i - 1], xs[i])
    IN  Pass[Len(xs)]
Lcm(a, b) == (a \div Gcd(a, b)) * b
CommonDen(xs, low) ==
    LET Pass[i \in 0..Len(xs)] ==
            IF i = 0 THEN 1 ELSE Lcm(Pass[i - 1], RSub(xs[i], low)[2])
    IN  Pass[Len(xs)]
\* The natural numbers w * (xs[i] - low).
Scaled(xs, low, w) ==
    [i \in 1..Len(xs) |-> RSub(xs[i], low)[1] * (w \div RSub(xs[i], low)[2])]

\* The sign of ema - bound for the ema of the natural numbers `values`.
EmaCmpScaled(values, period, bound) ==
    BigCmp(EmaExact(values, period).num,
           BigMul(EmaExact(values, period).den, BigOf(bound)))

\* The sign of calculate_ema(values, period) - bound.
EmaCmpFrom(values, period, bound, low) ==
    EmaCmpScaled(Scaled(values, low, CommonDen(Append(values, bound), low)),
                 period,
                 Scaled(<<bound>>, low, CommonDen(Append(values, bound), low))[1])

EmaCmp(values, period, bound) ==
    IF Len(values) < period THEN RCmp(calculate_ema(values, period), bound)
    ELSE EmaCmpFrom(values, period, bound, Least(Append(values, bound)))


\* An optional value: None is <<>>, a present value x is <<x>>.
None == <<>>
Some(x) == <<x>>

calculate_correlation(x, y) ==
    IF Len(x) < 2 \/ Len(y) < 2 \/ Len(x) # Len(y) THEN None
    ELSE LET x_mean == calculate_mean(x)
             y_mean == calculate_mean(y)
             numerator == RSum([i \in 1..Len(x) |->
                                  RMul(RSub(x[i], x_mean), RSub(y[i], y_mean))])
             x_std == calculate_std(x, x_mean)
             y_std == calculate_std(y, y_mean)
         IN  IF x_std.sgn = 0 \/ y_std.sgn = 0 THEN None
             ELSE \* numerator / (len(x) * x_std * y_std)
                  Some([sgn |-> RSgn(numerator),
                        sq |-> RDiv(RMul(numerator, numerator),
                                    RMul(R(Len(x) * Len(x)), RMul(x_std.sq, y_std.sq)))])

calculate_adf_test_simple(values) ==
    IF Len(values) < 10 THEN None
    ELSE LET mean == calculate_mean(values)
             autocov == RDiv(RSum([i \in 1..(Len(values) - 1) |->
                                     RMul(RSub(values[i + 1], mean), RSub(values[i], mean))]),
                             R(Len(values)))
             var == Variance(values, mean)
         IN  IF var = Zero THEN Some(R(1))
             ELSE Some(RDiv(R(1), RAdd(R(1), RAbs(RDiv(autocov, var)))))

\* alpha = 0.1, beta = 0.85; calculate_std(returns) ** 2 and np.var(returns) are
\* both the population variance of the returns.
calculate_garch_volatility_forecast(returns) ==
    IF Len(returns) < 10 THEN None
    ELSE LET alpha == Rat(1, 10)
             beta == Rat(85, 100)
             current_return == returns[Len(returns)]
             current_vol_sq == calculate_std(returns, Zero).sq
             long_term_var == Variance(returns, calculate_mean(returns))
             omega == RMul(RSub(RSub(R(1), alpha), beta), long_term_var)
             forecast_vol_sq == RAdd(omega,
                                     RAdd(RMul(alpha, RMul(current_return, current_return)),
                                          RMul(beta, current_vol_sq)))
         IN  Some(Root(RMax(forecast_vol_sq, Zero)))

(***************************************************************************)
(* Python containers                                                       *)
(***************************************************************************)
\* A dict, which keeps its keys in insertion order: the keys and the values.
EmptyDict == [keys |-> <<>>, at |-> <<>>]
Has(d, k) == k \in DOMAIN d.at
Put(d, k, v) ==
    [keys |-> IF Has(d, k) THEN d.keys ELSE Append(d.keys, k),
     at |-> [x \in (DOMAIN d.at) \cup {k} |-> IF x = k THEN v ELSE d.at[x]]]
\* del d[k] for a key of d.
Del(d, k) ==
    [keys |-> SelectSeq(d.keys, LAMBDA x : x # k),
     at |-> [x \in (DOMAIN d.at) \ {k} |-> d.at[x]]]
\* d[k] of a defaultdict whose factory makes an empty deque (the caller stores
\* the result back, which is what creates the key).
GetDefault(d, k) == IF Has(d, k) THEN d.at[k] ELSE <<>>

\* A deque that, once full, refuses the new element instead of evicting the
\* oldest one.
DequeAppendKeepsOldest(q, x, maxlen) ==
    IF Len(q) >= maxlen THEN q ELSE Append(q, x)

\* deque(maxlen=n).append(x): a full deque drops its leftmost element.
DequeAppend(q, x, maxlen) ==
    IF Len(q) >= maxlen THEN Append(Tail(q), x) ELSE Append(q, x)

(***************************************************************************)
(* utils.py: check_alert_condition                                         *)
(***************************************************************************)
\* 1 / 1e-6, the tolerance of the == and != comparisons being 1e-6.
Million == BigOf(1000000)

\* threshold + side * 1e-6 (side is 1 or -1) as sgn * mag / den, mag and den in
\* digits: (n * 10^6 + side * d) / (d * 10^6) for the threshold n / d.
Shifted(threshold, side) ==
    LET scaled == BigMul(BigOf(Abs(threshold[1])), Million)
        d      == BigOf(threshold[2])
        den    == BigMul(d, Million)
    IN  IF threshold[1] = 0 THEN [sgn |-> side, mag |-> d, den |-> den]
        ELSE IF RSgn(threshold) = side
             THEN [sgn |-> side, mag |-> BigAdd(scaled, d), den |-> den]
        ELSE [sgn |-> BigCmp(scaled, d) * RSgn(threshold),
              mag |-> IF BigCmp(scaled, d) = 1 THEN BigSub(scaled, d)
                      ELSE BigSub(d, scaled),
              den |-> den]

\* The sign of value - r for a signed root value and r = sgn * mag / den: the
\* squares value.sq and (mag / den)^2 are compared when the signs agree.
RootCmp(value, r) ==
    IF value.sgn # r.sgn THEN (IF value.sgn < r.sgn THEN -1 ELSE 1)
    ELSE value.sgn * BigCmp(BigMul(BigOf(value.sq[1]), BigMul(r.den, r.den)),
                            BigMul(BigMul(r.mag, r.mag), BigOf(value.sq[2])))

\* abs(value - threshold) < 1e-6, for a value carried as a signed root:
\* threshold - 1e-6 < value < threshold + 1e-6, in exact arithmetic.
Near(value, threshold) ==
    /\ RootCmp(value, Shifted(threshold, -1)) = 1
    /\ RootCmp(value, Shifted(threshold, 1)) = -1

\* utils.check_alert_condition(value, condition, threshold): value is a signed
\* root (every metric value is carried as one), threshold a rational.
check_alert_condition(value, condition, threshold) ==
    IF condition = ">" THEN RootLt(AsRoot(threshold), value)
    ELSE IF condition = "<" THEN RootLt(value, AsRoot(threshold))
    ELSE IF condition = ">=" THEN ~RootLt(value, AsRoot(threshold))
    ELSE IF condition = "<=" THEN ~RootLt(AsRoot(threshold), value)
    ELSE IF condition = "==" THEN Near(value, threshold)
    ELSE IF condition = "!=" THEN ~Near(value, threshold)
    ELSE FALSE

(***************************************************************************)
(* Program constants and the bounds of the model                           *)
(***************************************************************************)
\* main.py: SYMBOLS
SYMBOLS == <<"BTCUSDT", "ETHUSDT">>
Symbols == {SYMBOLS[i] : i \in 1..Len(SYMBOLS)}
\* AnalyticsEngine(window_size=60, max_history=500); the model keeps a short
\* history so that eviction happens within the bound on the number of calls.
window_size == 60
max_history == 2
\* main.py: SAMPLING_INTERVAL, in seconds.  The model's clock `now` counts
\* sampling intervals and stops at MaxNow.
SAMPLING_INTERVAL == 5
MaxNow == 4
\* main.py: MAX_ALERT_HISTORY is 1000; the model keeps a short alert log so
\* that the cap is exceeded within the bound on the number of evaluations.
MAX_ALERT_HISTORY == 2
\* time.time(), in seconds, at clock value t.
Time(t) == t * SAMPLING_INTERVAL

(***************************************************************************)
(* data_handler.py: TickBuffer                                             *)
(***************************************************************************)
Tick(timestamp, symbol, price, quantity) ==
    [timestamp |-> timestamp, symbol |-> symbol, price |-> price, quantity |-> quantity]

\* TickBuffer.__init__ at time t.
NewTickBuffer(t) == [buffer |-> EmptyDict, last_flush |-> Time(t)]

\* TickBuffer.add
BufferAdd(tb, tick) ==
    [tb EXCEPT !.buffer = Put(tb.buffer, tick.symbol,
                              Append(GetDefault(tb.buffer, tick.symbol), tick))]

\* A should_flush that ignores the interval: true whenever the clock has not
\* gone back since the last flush.
ShouldFlushAnyTime(tb, t, interval_ms) == (Time(t) - tb.last_flush) * 1000 >= 0

\* TickBuffer.should_flush(interval_ms) at time t: state is only read.
should_flush(tb, t, interval_ms) == (Time(t) - tb.last_flush) * 1000 >= interval_ms

RECURSIVE SeqMin(_)
SeqMin(xs) == IF Len(xs) = 1 THEN xs[1] ELSE RMin(xs[1], SeqMin(Tail(xs)))
RECURSIVE SeqMax(_)
SeqMax(xs) == IF Len(xs) = 1 THEN xs[1] ELSE RMax(xs[1], SeqMax(Tail(xs)))

\* The SampledWindow that flush builds from one symbol's non-empty tick list.
Aggregate(symbol, ticks, current_time) ==
    LET prices == [i \in 1..Len(ticks) |-> ticks[i].price]
        quantities == [i \in 1..Len(ticks) |-> ticks[i].quantity]
        mean_price == calculate_mean(prices)
    IN  [timestamp |-> current_time,
         symbol |-> symbol,
         mean_price |-> mean_price,
         std_price |-> calculate_std(prices, mean_price),
         min_price |-> SeqMin(prices),
         max_price |-> SeqMax(prices),
         total_volume |-> RSum(quantities),
         tick_count |-> Len(ticks),
         vwap |-> calculate_vwap(prices, quantities)]

\* The loop of flush over buffer.items(), in the dict's order; an empty tick
\* list is skipped.
RECURSIVE FlushWindows(_, _, _, _)
FlushWindows(buffer, keys, current_time, windows) ==
    IF keys = <<>> THEN windows
    ELSE LET symbol == Head(keys)
             ticks == buffer.at[symbol]
         IN  FlushWindows(buffer, Tail(keys), current_time,
                          IF ticks = <<>> THEN windows
                          ELSE Put(windows, symbol, Aggregate(symbol, ticks, current_time)))

\* A flush that returns the windows but keeps the ticks buffered.
FlushKeepsBuffer(tb, t) ==
    [windows |-> FlushWindows(tb.buffer, tb.buffer.keys, Time(t) * 1000, EmptyDict),
     tick_buffer |-> [buffer |-> tb.buffer, last_flush |-> Time(t)]]

\* A flush that aggregates only the first symbol of the buffer.
FlushFirstOnly(tb, t) ==
    [windows |-> FlushWindows(tb.buffer,
                              IF tb.buffer.keys = <<>> THEN <<>> ELSE <<Head(tb.buffer.keys)>>,
                              Time(t) * 1000, EmptyDict),
     tick_buffer |-> [buffer |-> EmptyDict, last_flush |-> Time(t)]]

\* TickBuffer.flush at time t: the windows returned and the buffer afterwards.
Flush(tb, t) ==
    [windows |-> FlushWindows(tb.buffer, tb.buffer.keys, Time(t) * 1000, EmptyDict),
     tick_buffer |-> [buffer |-> EmptyDict, last_flush |-> Time(t)]]

(***************************************************************************)
(* analytics.py: AnalyticsEngine                                           *)
(***************************************************************************)
\* AnalyticsEngine.__init__
NewEngine ==
    [price_history |-> EmptyDict,
     volume_history |-> EmptyDict,
     timestamp_history |-> EmptyDict,
     returns_history |-> EmptyDict,
     latest_metrics |-> EmptyDict]

\* process_window, lines 80-89: the BTC-ETH correlation, computed only when the
\* two price histories have the same length.
PairCorrelation(price_history, symbol, prices) ==
    IF symbol = "BTCUSDT" /\ Has(price_history, "ETHUSDT")
    THEN (IF Len(price_history.at["ETHUSDT"]) = Len(prices)
          THEN calculate_correlation(prices, price_history.at["ETHUSDT"])
          ELSE None)
    ELSE IF symbol = "ETHUSDT" /\ Has(price_history, "BTCUSDT")
    THEN (IF Len(prices) = Len(price_history.at["BTCUSDT"])
          THEN calculate_correlation(price_history.at["BTCUSDT"], prices)
          ELSE None)
    ELSE None

\* process_window, lines 91-105: the AnalyticsMetrics record.
MetricsRecord(window, prices, returns, price_history, mean_price, std_price, recent_mean, recent_std, sma_20, ema_20) ==
    [timestamp |-> window.timestamp,
     symbol |-> window.symbol,
     mean_price |-> mean_price,
     std_price |-> std_price,
     volatility |-> IF RLt(Zero, mean_price)
                    THEN Root(RDiv(std_price.sq, RMul(mean_price, mean_price)))
                    ELSE RootZero,
     z_score |-> calculate_z_score(window.mean_price, recent_mean, recent_std),
     sma_20 |-> sma_20,
     ema_20 |-> ema_20,
     rsi |-> calculate_rsi(prices, 14),
     correlation_btc_eth |-> PairCorrelation(price_history, window.symbol, prices),
     garch_forecast |-> calculate_garch_volatility_forecast(returns),
     adf_pvalue |-> calculate_adf_test_simple(prices),
     trend |-> detect_trend(sma_20, ema_20, window.mean_price)]

\* process_window, line 59: the prices the z-score is taken over.
RecentPrices(prices) ==
    IF Len(prices) >= window_size THEN LastN(prices, window_size) ELSE prices

\* process_window, lines 55-66, given the two means.
MetricsFromMeans(window, prices, returns, price_history, mean_price, recent_mean) ==
    MetricsRecord(window, prices, returns, price_history, mean_price,
                  calculate_std(prices, mean_price),
                  recent_mean,
                  calculate_std(RecentPrices(prices), recent_mean),
                  calculate_sma(prices, 20),
                  calculate_ema(prices, 20))

\* process_window, lines 49-105: the AnalyticsMetrics of a window, from the
\* histories as they are after the window was appended.
ComputeMetrics(window, prices, returns, price_history) ==
    MetricsFromMeans(window, prices, returns, price_history,
                     calculate_mean(prices),
                     calculate_mean(RecentPrices(prices)))

\* A window of which only the price is recorded.
AppendWindowPriceOnly(e, window) ==
    [e EXCEPT
       !.price_history = Put(@, window.symbol,
                             DequeAppend(GetDefault(@, window.symbol),
                                         window.mean_price, max_history))]

\* process_window, lines 39-42: the window is appended to the three histories.
AppendWindow(e, window) ==
    [e EXCEPT
       !.price_history = Put(@, window.symbol,
                             DequeAppend(GetDefault(@, window.symbol),
                                         window.mean_price, max_history)),
       !.volume_history = Put(@, window.symbol,
                              DequeAppend(GetDefault(@, window.symbol),
                                          window.total_volume, max_history)),
       !.timestamp_history = Put(@, window.symbol,
                                 DequeAppend(GetDefault(@, window.symbol),
                                             window.timestamp, max_history))]

\* A return computed only from the third window on.
HasPriorOffByOne(prices) == Len(prices) > 2

\* process_window, line 45: a return is computed when the history holds a
\* previous price.
HasPrior(prices) == Len(prices) > 1

\* process_window, line 46: the division raises ZeroDivisionError when the
\* previous price is 0.
ReturnRaises(prices) == HasPrior(prices) /\ prices[Len(prices) - 1] = Zero

\* process_window, line 46.
SimpleReturn(price, prior) == RDiv(RSub(price, prior), prior)

\* process_window, lines 45-46: the return of the window, if one is computed.
ReturnOf(window, prices) ==
    IF HasPrior(prices)
    THEN Some(SimpleReturn(window.mean_price, prices[Len(prices) - 1]))
    ELSE None

\* process_window, line 47 and line 52: the return is appended; reading
\* returns_history[symbol] creates the key when there is no return yet.
AppendReturn(e, symbol, ret) ==
    [e EXCEPT !.returns_history =
        Put(@, symbol,
            IF ret = None THEN GetDefault(@, symbol)
            ELSE DequeAppend(GetDefault(@, symbol), ret[1], max_history))]

\* process_window, lines 107-108: the metrics are cached and returned.
StoreMetrics(e, symbol, ret, metrics) ==
    [engine |-> [e EXCEPT !.latest_metrics = Put(@, symbol, metrics)],
     raised |-> FALSE, ret |-> ret, metrics |-> Some(metrics)]

\* process_window, lines 49-108, on the engine with the window and its return
\* appended.
MeasureWindow(e, window, ret) ==
    StoreMetrics(e, window.symbol, ret,
                 ComputeMetrics(window,
                                e.price_history.at[window.symbol],
                                e.returns_history.at[window.symbol],
                                e.price_history))

\* process_window, lines 45-108, on the engine with the window appended.
ProcessAppended(e, window) ==
    IF ReturnRaises(e.price_history.at[window.symbol])
    THEN [engine |-> e, raised |-> TRUE, ret |-> None, metrics |-> None]
    ELSE MeasureWindow(AppendReturn(e, window.symbol,
                                    ReturnOf(window, e.price_history.at[window.symbol])),
                       window,
                       ReturnOf(window, e.price_history.at[window.symbol]))

\* AnalyticsEngine.process_window(window) on engine state e.  The result is
\* the engine afterwards, whether the call raised, the return it appended (if
\* any) and the metrics it returned (if it returned).
process_window(e, window) == ProcessAppended(AppendWindow(e, window), window)

(***************************************************************************)
(* data_handler.py: BinanceWebSocketClient.connect, and utils.py            *)
(***************************************************************************)
\* BinanceWebSocketClient.__init__: max_reconnect_attempts
max_reconnect_attempts == 10
\* exponential_backoff: the defaults base=1.0 and max_wait=60.0
BackoffBase == 1
BackoffMaxWait == 60
\* np.random.uniform(0, 1) draws the jitter from [0, 1): the model draws it
\* from the JitterSteps values 0, 1/JitterSteps, ...
JitterSteps == 2
Jitters == {Rat(j, JitterSteps) : j \in 0..(JitterSteps - 1)}

\* utils.exponential_backoff(attempt) with the jitter drawn.
exponential_backoff(attempt, jitter) ==
    RAdd(RMin(RMul(R(BackoffBase), R(2 ^ attempt)), R(BackoffMaxWait)), jitter)

\* A loop condition that lets an attempt through at the bound.
MayAttemptAtBound(attempts) == attempts <= max_reconnect_attempts

\* connect, line 42: the loop condition.
MayAttempt(attempts) == attempts < max_reconnect_attempts

\* connect, line 65: the bound on failed attempts is reached.
MaxAttemptsReached(attempts) == attempts >= max_reconnect_attempts

\* connect, line 69: the attempt number handed to exponential_backoff.
BackoffAttempt(client) == client.reconnect_attempts

\* connect, line 42: the loop condition: the next attempt starts (session,
\* ws_connect) or connect() returns.
LoopHead(client) == IF MayAttempt(client.reconnect_attempts) THEN "connecting" ELSE "returned"

\* BinanceWebSocketClient.get_uptime at clock value t, in seconds.
get_uptime(client, t) ==
    IF client.connect_time = None THEN 0 ELSE Time(t) - client.connect_time[1]

(***************************************************************************)
(* data_handler.py: _handle_message                                        *)
(***************************************************************************)
\* The text of a WebSocket frame, by what json.loads makes of it: it raises
\* ("invalid"), or yields a number, a list, or an object with fields.  A field
\* value is a JSON string, number or null.
JStr(text) == [type |-> "str", text |-> text, num |-> 0]
JNum(num) == [type |-> "num", text |-> "", num |-> num]
JNull == [type |-> "null", text |-> "", num |-> 0]
JObject(fields) == [kind |-> "object", fields |-> fields]
JOther(kind) == [kind |-> kind, fields |-> <<>>]

\* The decimal texts the model's messages carry, and the number each denotes.
NumericTexts ==
    "0" :> 0 @@ "1" :> 1 @@ "2" :> 2 @@ "3" :> 3 @@ "4" :> 4 @@ "5" :> 5 @@
    "7" :> 7 @@ "99" :> 99 @@ "100" :> 100 @@ "101" :> 101

\* float(x) of a field value, as an Optional: None where Python raises
\* (ValueError for a text that is no number, TypeError for null).
FloatOf(v) ==
    IF v.type = "num" THEN Some(R(v.num))
    ELSE IF v.type = "str" /\ v.text \in DOMAIN NumericTexts THEN Some(R(NumericTexts[v.text]))
    ELSE None

\* str.upper() on the symbols of the model.
Upper(text) ==
    IF text = "btcusdt" THEN "BTCUSDT"
    ELSE IF text = "ethusdt" THEN "ETHUSDT"
    ELSE text

\* _handle_message, line 102: msg.get("T", int(time.time() * 1000)): the value
\* of the field T as json.loads made it (a number, a str, or None for null),
\* and the clock, a number, only when the message has no field T.  The value
\* keeps its type (JNum, JStr or JNull): nothing converts it.
TimestampOf(fields, t) ==
    IF "T" \notin DOMAIN fields THEN JNum(Time(t) * 1000) ELSE fields["T"]

\* The same value as an Optional: None for the None a null T gives.
TimestampSeen(fields, t) ==
    IF TimestampOf(fields, t).type = "null" THEN None
    ELSE Some(TimestampOf(fields, t))

\* models.py, line 111: the validation of last_tick_timestamp, declared
\* Optional[float], refuses a text that denotes no number.
Refused(value) == value # None /\ FloatOf(value[1]) = None

\* The value of the field once validated: None, or the float that the number
\* or the text denotes.
ValidatedFloat(value) ==
    IF value = None THEN None ELSE FloatOf(value[1])

\* models.py, lines 107-111: ConnectionStatusResponse(...) on a str, a float,
\* an int and the last_tick_timestamp of the client, as an Optional: None
\* where the validation raises ValidationError.
ConnectionStatusResponse(status, uptime_seconds, ticks_received, last_tick_timestamp) ==
    IF Refused(last_tick_timestamp) THEN None
    ELSE Some([status |-> status, uptime_seconds |-> uptime_seconds,
               ticks_received |-> ticks_received,
               last_tick_timestamp |-> ValidatedFloat(last_tick_timestamp)])

\* main.py: get_status at clock value t, for the value of the global
\* ws_client: the response, or None where building it raises.
get_status(client, t) ==
    IF client = None
    THEN ConnectionStatusResponse("disconnected", 0, 0, None)
    ELSE ConnectionStatusResponse(IF client.is_connected THEN "connected" ELSE "connecting",
                                  get_uptime(client, t),
                                  client.ticks_received,
                                  client.last_tick_timestamp)

\* A parse that takes a quantity that is no number for 0.
ParseCountingEarly(fields, t) ==
    IF fields["s"].type # "str" THEN None
    ELSE IF FloatOf(fields["p"]) = None THEN None
    ELSE Some(Tick(TimestampOf(fields, t), Upper(fields["s"].text),
                   FloatOf(fields["p"])[1],
                   IF FloatOf(fields["q"]) = None THEN Zero ELSE FloatOf(fields["q"])[1]))

\* _handle_message, lines 99-109, for an object with the fields s, p and q:
\* the Tick, or None where a conversion raises (upper() of a value that is no
\* string, float() of a value that is no number).
ParseTrade(fields, t) ==
    IF fields["s"].type # "str" THEN None
    ELSE IF FloatOf(fields["p"]) = None \/ FloatOf(fields["q"]) = None THEN None
    ELSE Some(Tick(TimestampOf(fields, t), Upper(fields["s"].text),
                   FloatOf(fields["p"])[1], FloatOf(fields["q"])[1]))

\* _handle_message, lines 95-109: the Tick of a message, if it yields one.
\* json.loads raising, the test `"s" in msg` raising on a number, and a
\* conversion raising all end in the except block of line 117; a list or an
\* object without s, p or q fails the test of line 98.
TickOf(msg, t) ==
    IF msg.kind # "object" THEN None
    ELSE IF ~({"s", "p", "q"} \subseteq DOMAIN msg.fields) THEN None
    ELSE ParseTrade(msg.fields, t)

\* _handle_message, lines 111-112, for the timestamp of the tick (an Optional).
CountTick(client, timestamp) ==
    [client EXCEPT !.ticks_received = @ + 1,
                   !.last_tick_timestamp = timestamp]

\* The aggTrade messages with the given symbols, prices and quantities (as
\* decimal texts, the way the exchange sends them), without a T field.
TextOf(r) == CHOOSE text \in DOMAIN NumericTexts : R(NumericTexts[text]) = r
TradeMessage(symbol, price, quantity) ==
    JObject("s" :> JStr(symbol) @@ "p" :> JStr(TextOf(price)) @@ "q" :> JStr(TextOf(quantity)))
ValidMessages(symbols, prices, quantities) ==
    {TradeMessage(symbol, price, quantity) :
        symbol \in symbols, price \in prices, quantity \in quantities}

\* Messages that are malformed or do not match the schema, and more valid
\* ones (a lower-case symbol, a JSON number as price, and a field T that is a
\* number, a text that denotes a number, another text, or null).
MalformedMessages ==
    {JOther("invalid"), JOther("number"), JOther("list"),
     JObject("p" :> JStr("1") @@ "q" :> JStr("1")),
     JObject("s" :> JStr("BTCUSDT") @@ "q" :> JStr("1")),
     JObject("s" :> JStr("BTCUSDT") @@ "p" :> JStr("1")),
     JObject("s" :> JStr("BTCUSDT") @@ "p" :> JStr("abc") @@ "q" :> JStr("1")),
     JObject("s" :> JStr("BTCUSDT") @@ "p" :> JStr("1") @@ "q" :> JStr("abc")),
     JObject("s" :> JStr("BTCUSDT") @@ "p" :> JNull @@ "q" :> JStr("1")),
     JObject("s" :> JNum(1) @@ "p" :> JStr("1") @@ "q" :> JStr("1"))}
OtherValidMessages ==
    {JObject("s" :> JStr("ethusdt") @@ "p" :> JNum(1) @@ "q" :> JStr("1")
             @@ "T" :> JNum(7)),
     JObject("s" :> JStr("BTCUSDT") @@ "p" :> JStr("1") @@ "q" :> JStr("1")
             @@ "T" :> JStr("7")),
     JObject("s" :> JStr("BTCUSDT") @@ "p" :> JStr("1") @@ "q" :> JStr("1")
             @@ "T" :> JStr("abc")),
     JObject("s" :> JStr("BTCUSDT") @@ "p" :> JStr("1") @@ "q" :> JStr("1")
             @@ "T" :> JNull)}

\* A message that matches the schema: an object with a text s and numeric p
\* and q.
IsNumeric(v) == v.type = "num" \/ (v.type = "str" /\ v.text \in DOMAIN NumericTexts)
WellFormed(msg) ==
    /\ msg.kind = "object"
    /\ {"s", "p", "q"} \subseteq DOMAIN msg.fields
    /\ msg.fields["s"].type = "str"
    /\ IsNumeric(msg.fields["p"])
    /\ IsNumeric(msg.fields["q"])

(***************************************************************************)
(* The state                                                               *)
(***************************************************************************)
VARIABLES
    now,               \* the wall clock, in sampling intervals
    tick_buffer,       \* main.py: tick_buffer (TickBuffer)
    analytics_engine,  \* main.py: analytics_engine (AnalyticsEngine)
    ws_client,         \* main.py: ws_client (BinanceWebSocketClient)
    connect_task,      \* where connect() stands, its local wait_time, the
                       \* calls of connect() made so far, and how the try
                       \* block was left when the finally block runs
    history_log,       \* observer: every value appended to each history
    call_log,          \* observer: the process_window calls of the last step
    sample_log,        \* observer: the last flush (the buffer it found, the
                       \* windows it returned, the sink fault of the iteration)
                       \* and the iterations that did not flush
    tick_log,          \* observer: ticks added and ticks emitted in windows
    backoff_log,       \* observer: the backoff waits since the last connect
    alert_rules,       \* main.py: alert_rules (dict rule_id -> rule)
    alert_history,     \* main.py: alert_history (list of alert events)
    alerts_table,      \* data/ticks.db: the rows of the table alerts
    startup_task,      \* where startup_event stands
    close_task,        \* where a call of ws_client.close() stands
    alert_log,         \* observer: every alert event appended, and the last
                       \* evaluation (its snapshot, the rules it found, its events)
    command_log,       \* observer: the last alert-rule command and its outcome
    msg_log,           \* observer: the last message handed to _handle_message
    backtest_log,      \* observer: the last backtest call and its result
    query_log,         \* observer: the last query of the engine, its result and
                       \* the results of the queries since the last window
    indicator_log,     \* observer: the last indicator computed on a price series
    fault_log          \* observer: the kinds of fault met so far

\* The variables of the alert rules and of the observers added for them, for
\* the handlers that leave all of them alone.
alertVars == <<alert_rules, alert_history, alerts_table, startup_task, alert_log,
               command_log>>
queryVars == <<close_task, msg_log, backtest_log>>
readVars == <<query_log, indicator_log, fault_log>>

vars == <<now, tick_buffer, analytics_engine, ws_client, connect_task,
          history_log, call_log, sample_log, tick_log, backoff_log,
          alert_rules, alert_history, alerts_table, startup_task, close_task,
          alert_log, command_log,
          msg_log, backtest_log, query_log, indicator_log, fault_log>>

\* Bounds on the inputs: tick prices 0..MaxPrice (a price of 0 parses like any
\* other number), at most MaxTicks messages received, at most MaxFlushes
\* iterations of the sampling task.
MaxPrice == 1
MaxTicks == 3
MaxFlushes == 2
\* At most MaxSkips iterations of the sampling task that do not flush.
MaxSkips == 1
\* At most MaxCommands alert-rule commands.
MaxCommands == 2
\* At most MaxTail prices after the first twenty of a replayed series.
MaxTail == 3
\* The series the indicators are computed on have at most MaxSeries prices.
MaxSeries == 21
\* The limits of get_price_history are 0..MaxLimit.
MaxLimit == 2
\* The price and volume lists handed to calculate_vwap have at most MaxTrades
\* entries.
MaxTrades == 3
TickPrices == {R(p) : p \in 0..MaxPrice}
UnitQuantities == {R(1)}
\* The prices and quantities of the end-to-end aggregation scenario.
ScenarioSymbols == {"BTCUSDT"}
ScenarioPrices == {R(99), R(100), R(101)}
ScenarioQuantities == {R(1), R(2)}

(***************************************************************************)
(* Observers (not program state)                                           *)
(***************************************************************************)
EmptyHistoryLog ==
    [s \in Symbols |-> [price |-> <<>>, volume |-> <<>>, timestamp |-> <<>>, ret |-> <<>>]]

\* What one process_window call appended, read off its result.
LogCall(log, window, r) ==
    [log EXCEPT ![window.symbol] =
        [price |-> Append(@.price, window.mean_price),
         volume |-> Append(@.volume, window.total_volume),
         timestamp |-> Append(@.timestamp, window.timestamp),
         ret |-> IF r.ret = None THEN @.ret ELSE Append(@.ret, r.ret[1])]]

\* The record of one process_window call: the price recorded before it, and
\* what the call did.
CallRecord(e, window, r) ==
    LET before == GetDefault(e.price_history, window.symbol)
    IN  [window |-> window,
         prior |-> IF before = <<>> THEN None ELSE Some(before[Len(before)]),
         raised |-> r.raised,
         ret |-> r.ret,
         metrics |-> r.metrics,
         returns_before |-> GetDefault(e.returns_history, window.symbol),
         returns_after |-> GetDefault(r.engine.returns_history, window.symbol),
         prices_after |-> GetDefault(r.engine.price_history, window.symbol),
         volumes_after |-> GetDefault(r.engine.volume_history, window.symbol),
         timestamps_after |-> GetDefault(r.engine.timestamp_history, window.symbol)]

(***************************************************************************)
(* analytics.py: backtest_mean_reversion                                   *)
(***************************************************************************)
\* backtest_mean_reversion: the number of prices before the replay starts
\* (lines 163, 169, 170).
BacktestPeriod == 20

\* abs(z) of a signed root.
RootAbs(z) == [sgn |-> Abs(z.sgn), sq |-> z.sq]

\* backtest_mean_reversion, lines 184-191: the open position is closed at
\* price `price`.  st is [position, trades], position an Optional.
ClosePosition(st, price) ==
    [position |-> None,
     trades |-> Append(st.trades,
                       [pnl |-> IF st.position[1].type = "long"
                                THEN RSub(price, st.position[1].price)
                                ELSE RSub(st.position[1].price, price),
                        type |-> st.position[1].type])]

\* The entry signals read whether or not a position is open.
BacktestSignalReenters(st, price, i, z, entry_threshold, exit_threshold) ==
    IF RootLt(AsRoot(entry_threshold), z)
    THEN [st EXCEPT !.position = Some([type |-> "short", price |-> price, index |-> i])]
    ELSE IF RootLt(z, AsRoot(RSub(Zero, entry_threshold)))
    THEN [st EXCEPT !.position = Some([type |-> "long", price |-> price, index |-> i])]
    ELSE IF st.position # None /\ RootLt(RootAbs(z), AsRoot(exit_threshold))
    THEN ClosePosition(st, price)
    ELSE st

\* backtest_mean_reversion, lines 175-191: the entry and exit signals of step
\* i (an index from 0, as in the source) with z-score z.
BacktestSignal(st, price, i, z, entry_threshold, exit_threshold) ==
    IF st.position = None
    THEN IF RootLt(AsRoot(entry_threshold), z)
         THEN [st EXCEPT !.position = Some([type |-> "short", price |-> price, index |-> i])]
         ELSE IF RootLt(z, AsRoot(RSub(Zero, entry_threshold)))
         THEN [st EXCEPT !.position = Some([type |-> "long", price |-> price, index |-> i])]
         ELSE st
    ELSE IF RootLt(RootAbs(z), AsRoot(exit_threshold)) THEN ClosePosition(st, price)
    ELSE st

\* backtest_mean_reversion, lines 170-173, given the mean of the trailing
\* window.
BacktestZ(price, recent, mean) ==
    calculate_z_score(price, mean, calculate_std(recent, mean))

\* A step whose trailing window ends with the current price.
BacktestStepInclusive(st, prices, i, entry_threshold, exit_threshold) ==
    BacktestSignal(st, prices[i + 1], i,
                   BacktestZ(prices[i + 1],
                             SubSeq(prices, i - BacktestPeriod + 2, i + 1),
                             calculate_mean(SubSeq(prices, i - BacktestPeriod + 2, i + 1))),
                   entry_threshold, exit_threshold)

\* backtest_mean_reversion, lines 170-191: step i of the replay (from 0).
BacktestStep(st, prices, i, entry_threshold, exit_threshold) ==
    BacktestSignal(st, prices[i + 1], i,
                   BacktestZ(prices[i + 1],
                             SubSeq(prices, i - BacktestPeriod + 1, i),
                             calculate_mean(SubSeq(prices, i - BacktestPeriod + 1, i))),
                   entry_threshold, exit_threshold)

\* A result that counts as losses only the trades with a negative pnl.
BacktestResultStrictLosses(trades) ==
    LET wins == Cardinality({k \in 1..Len(trades) : RLt(Zero, trades[k].pnl)})
        losses == Cardinality({k \in 1..Len(trades) : RLt(trades[k].pnl, Zero)})
        total_pnl == RSum([k \in 1..Len(trades) |-> trades[k].pnl])
    IN  [trades |-> Len(trades),
         wins |-> wins,
         losses |-> losses,
         win_rate |-> IF trades # <<>> THEN Rat(wins, Len(trades)) ELSE Zero,
         total_pnl |-> total_pnl,
         avg_pnl |-> IF trades # <<>> THEN RDiv(total_pnl, R(Len(trades))) ELSE Zero]

\* backtest_mean_reversion, lines 193-204: the result for the trades made.
BacktestResult(trades) ==
    LET wins == Cardinality({k \in 1..Len(trades) : RLt(Zero, trades[k].pnl)})
        losses == Cardinality({k \in 1..Len(trades) : RLe(trades[k].pnl, Zero)})
        total_pnl == RSum([k \in 1..Len(trades) |-> trades[k].pnl])
    IN  [trades |-> Len(trades),
         wins |-> wins,
         losses |-> losses,
         win_rate |-> IF trades # <<>> THEN Rat(wins, Len(trades)) ELSE Zero,
         total_pnl |-> total_pnl,
         avg_pnl |-> IF trades # <<>> THEN RDiv(total_pnl, R(Len(trades))) ELSE Zero]

\* backtest_mean_reversion, line 164: the result for fewer than 20 prices.
BacktestShort(prices) == [trades |-> 0, wins |-> 0, losses |-> 0]

\* backtest_mean_reversion, lines 166-191: the replay of at least 20 prices.
\* The value at i (an index from 0) is (position, trades) after step i; the
\* value at 19 is the one before the loop (lines 166-167).
BacktestTrace(prices, entry_threshold, exit_threshold) ==
    LET Pass[i \in (BacktestPeriod - 1)..(Len(prices) - 1)] ==
            IF i = BacktestPeriod - 1 THEN [position |-> None, trades |-> <<>>]
            ELSE BacktestStep(Pass[i - 1], prices, i, entry_threshold, exit_threshold)
    IN  Pass

\* backtest_mean_reversion, lines 162-204, on the list of prices.
Backtest(prices, entry_threshold, exit_threshold) ==
    IF Len(prices) < BacktestPeriod THEN BacktestShort(prices)
    ELSE BacktestResult(BacktestTrace(prices, entry_threshold,
                                      exit_threshold)[Len(prices) - 1].trades)

\* backtest_mean_reversion(symbol, entry_threshold, exit_threshold): reading
\* self.price_history[symbol] (line 162) creates the key of a symbol the
\* defaultdict does not hold yet.
backtest_mean_reversion(e, symbol, entry_threshold, exit_threshold) ==
    [engine |-> [e EXCEPT !.price_history =
                    Put(e.price_history, symbol, GetDefault(e.price_history, symbol))],
     result |-> Backtest(GetDefault(e.price_history, symbol),
                         entry_threshold, exit_threshold)]

\* process_window, lines 64-72, for a history `prices` whose last price is
\* the window's mean_price: the moving average, the RSI and the trend of the
\* snapshot.  The ema enters the trend through its order with the sma.
SnapshotIndicators(prices) ==
    [sma_20 |-> calculate_sma(prices, 20),
     rsi |-> calculate_rsi(prices, 14),
     trend |-> TrendOf(RCmp(prices[Len(prices)], calculate_sma(prices, 20)),
                       EmaCmp(prices, 20, calculate_sma(prices, 20)))]

(***************************************************************************)
(* analytics.py: the query methods of AnalyticsEngine                      *)
(***************************************************************************)
\* xs[start:] of Python for any integer start.
SliceFrom(xs, start) ==
    LET from == IF start < 0 THEN (IF Len(xs) + start < 0 THEN 0 ELSE Len(xs) + start)
                ELSE (IF start > Len(xs) THEN Len(xs) ELSE start)
    IN  SubSeq(xs, from + 1, Len(xs))

\* self.d[symbol] of a defaultdict, as a statement: the key is created.
Touch(d, symbol) == Put(d, symbol, GetDefault(d, symbol))

\* get_metrics(symbol), lines 110-112: latest_metrics.get(symbol).
get_metrics(e, symbol) ==
    [engine |-> e,
     result |-> IF Has(e.latest_metrics, symbol) THEN Some(e.latest_metrics.at[symbol])
                ELSE None]

\* get_all_metrics(), lines 114-116: a copy of latest_metrics.
get_all_metrics(e) == [engine |-> e, result |-> e.latest_metrics]

\* get_price_history(symbol, limit), lines 118-121; reading
\* self.price_history[symbol] creates the key of a symbol not yet held.
get_price_history(e, symbol, limit) ==
    [engine |-> [e EXCEPT !.price_history = Touch(@, symbol)],
     result |-> IF Len(GetDefault(e.price_history, symbol)) > limit
                THEN SliceFrom(GetDefault(e.price_history, symbol), -limit)
                ELSE GetDefault(e.price_history, symbol)]

\* detect_anomalies, lines 147-156: the prices whose z-score against the mean
\* and the deviation of all the prices exceeds the threshold in magnitude.
Anomalies(prices, mean, std, z_threshold) ==
    SelectSeq(prices,
              LAMBDA price : RootLt(AsRoot(z_threshold),
                                    RootAbs(calculate_z_score(price, mean, std))))

\* detect_anomalies(symbol, z_threshold): reading price_history[symbol]
\* creates the key; fewer than 10 prices give the empty list.
detect_anomalies(e, symbol, z_threshold) ==
    [engine |-> [e EXCEPT !.price_history = Touch(@, symbol)],
     result |-> IF Len(GetDefault(e.price_history, symbol)) < 10 THEN <<>>
                ELSE Anomalies(GetDefault(e.price_history, symbol),
                               calculate_mean(GetDefault(e.price_history, symbol)),
                               calculate_std(GetDefault(e.price_history, symbol),
                                             calculate_mean(GetDefault(e.price_history, symbol))),
                               z_threshold)]

\* get_correlation_matrix, lines 129-134 (and cluster_by_correlation, lines
\* 222-227): the correlation of the histories of two tracked symbols,
\* computed when they have the same length and are not empty.
HistoryCorrelation(price_history, sym1, sym2) ==
    IF Len(price_history.at[sym1]) = Len(price_history.at[sym2])
       /\ Len(price_history.at[sym1]) > 0
    THEN calculate_correlation(price_history.at[sym1], price_history.at[sym2])
    ELSE None

\* The pairs (sym1, sym2) of "for i, sym1 in enumerate(symbols): for sym2 in
\* symbols[i+1:]", in the order of the loops.
RECURSIVE SymbolPairs(_)
SymbolPairs(symbols) ==
    IF Len(symbols) < 2 THEN <<>>
    ELSE [j \in 1..(Len(symbols) - 1) |-> <<symbols[1], symbols[j + 1]>>]
         \o SymbolPairs(Tail(symbols))

\* get_correlation_matrix, lines 127-137: the loop over the pairs.  The key
\* f"{sym1}-{sym2}" is the pair (sym1, sym2).
RECURSIVE CorrelationEntries(_, _, _)
CorrelationEntries(result, price_history, pairs) ==
    IF pairs = <<>> THEN result
    ELSE CorrelationEntries(
             IF HistoryCorrelation(price_history, Head(pairs)[1], Head(pairs)[2]) = None
             THEN result
             ELSE Put(result, Head(pairs),
                      HistoryCorrelation(price_history, Head(pairs)[1], Head(pairs)[2])[1]),
             price_history, Tail(pairs))

\* get_correlation_matrix(), lines 123-139.
get_correlation_matrix(e) ==
    [engine |-> e,
     result |-> CorrelationEntries(EmptyDict, e.price_history,
                                   SymbolPairs(e.price_history.keys))]

\* cluster_by_correlation, lines 213-227: corr_matrix[i][j] (indexes from 1).
CorrMatrix(price_history, symbols, i, j) ==
    IF i = j THEN AsRoot(R(1))
    ELSE LET a == IF i < j THEN i ELSE j
             b == IF i < j THEN j ELSE i
         IN  IF HistoryCorrelation(price_history, symbols[a], symbols[b]) = None
             THEN RootZero
             ELSE HistoryCorrelation(price_history, symbols[a], symbols[b])[1]

\* A cluster that takes every symbol not assigned so far, whatever its
\* correlation.
ClusterMembersAny(price_history, symbols, i, assigned, min_correlation) ==
    SelectSeq([j \in 1..Len(symbols) |-> j], LAMBDA j : j \notin assigned)

\* cluster_by_correlation, lines 240-243: the symbols that join the cluster
\* of symbol i, given the indexes assigned so far (i among them).
ClusterMembers(price_history, symbols, i, assigned, min_correlation) ==
    SelectSeq([j \in 1..Len(symbols) |-> j],
              LAMBDA j : /\ j \notin assigned
                         /\ ~RootLt(CorrMatrix(price_history, symbols, i, j),
                                    AsRoot(min_correlation)))

\* The pass of the outer loop when an assigned symbol still seeds a cluster.
ClusterStepReseeds(st, price_history, symbols, i, min_correlation) ==
    LET members == ClusterMembers(price_history, symbols, i,
                                  st.assigned \cup {i}, min_correlation)
    IN  [clusters |-> Append(st.clusters,
                             <<symbols[i]>> \o
                             [k \in 1..Len(members) |-> symbols[members[k]]]),
         assigned |-> st.assigned \cup {i} \cup {members[k] : k \in 1..Len(members)}]

\* cluster_by_correlation, lines 233-245: the pass of the outer loop for
\* symbol i.  st is [clusters, assigned].
ClusterStep(st, price_history, symbols, i, min_correlation) ==
    IF i \in st.assigned THEN st
    ELSE LET members == ClusterMembers(price_history, symbols, i,
                                       st.assigned \cup {i}, min_correlation)
         IN  [clusters |-> Append(st.clusters,
                                  <<symbols[i]>> \o
                                  [k \in 1..Len(members) |-> symbols[members[k]]]),
              assigned |-> st.assigned \cup {i} \cup {members[k] : k \in 1..Len(members)}]

\* cluster_by_correlation(min_correlation), lines 206-247.
cluster_by_correlation(e, min_correlation) ==
    LET symbols == e.price_history.keys
        Pass[i \in 0..Len(symbols)] ==
            IF i = 0 THEN [clusters |-> <<>>, assigned |-> {}]
            ELSE ClusterStep(Pass[i - 1], e.price_history, symbols, i, min_correlation)
    IN  [engine |-> e,
         result |-> IF Len(symbols) < 2 THEN [k \in 1..Len(symbols) |-> <<symbols[k]>>]
                    ELSE Pass[Len(symbols)].clusters]

(***************************************************************************)
(* main.py: check_alerts                                                   *)
(***************************************************************************)
\* check_alerts, lines 131-139: the value of the named metric of a snapshot,
\* None for a name that is not mapped.  Every value is carried as a signed
\* root (z_score and volatility are roots already).
MetricValue(metrics, metric_name) ==
    IF metric_name = "z_score" THEN Some(metrics.z_score)
    ELSE IF metric_name = "volatility" THEN Some(metrics.volatility)
    ELSE IF metric_name = "price" THEN Some(AsRoot(metrics.mean_price))
    ELSE IF metric_name = "rsi" THEN Some(AsRoot(metrics.rsi))
    ELSE None

\* check_alerts, lines 150-157.
AlertEvent(rule_id, rule, actual_value, timestamp) ==
    [rule_id |-> rule_id,
     timestamp |-> timestamp,
     symbol |-> rule.symbol,
     metric |-> rule.metric,
     actual_value |-> actual_value,
     threshold |-> rule.threshold]

\* A log that, once full, drops the event just appended.
TrimNewest(h) == IF Len(h) > MAX_ALERT_HISTORY THEN SubSeq(h, 1, Len(h) - 1) ELSE h

\* check_alerts, lines 160-162: the log after an append, h, is cut back to
\* MAX_ALERT_HISTORY events by dropping its first one.
TrimHistory(h) == IF Len(h) > MAX_ALERT_HISTORY THEN Tail(h) ELSE h

\* check_alerts, lines 158-162.
AppendAlert(history, event) == TrimHistory(Append(history, event))

\* A trigger that appends the event and leaves the counter alone.
TriggerWithoutCount(st, rule_id, event) ==
    [rules |-> st.rules,
     history |-> AppendAlert(st.history, event),
     appended |-> Append(st.appended, event)]

\* check_alerts, lines 147-162: the rule is triggered with event `event`.
\* st is [rules, history, appended]: the rule set, the alert log, and the
\* events this evaluation has appended so far.
Trigger(st, rule_id, event) ==
    [rules |-> Put(st.rules, rule_id,
                   [st.rules.at[rule_id] EXCEPT !.triggered_count = @ + 1]),
     history |-> AppendAlert(st.history, event),
     appended |-> Append(st.appended, event)]

\* check_alerts, lines 141-147, for a rule with a mapped metric of value
\* actual_value.
CheckValue(st, rule_id, rule, actual_value, timestamp) ==
    IF check_alert_condition(actual_value, rule.condition, rule.threshold)
    THEN Trigger(st, rule_id, AlertEvent(rule_id, rule, actual_value, timestamp))
    ELSE st

\* An evaluation that does not look at the enabled flag.
CheckResolvedIgnoringEnabled(st, rule_id, rule, value, timestamp) ==
    IF value = None THEN st
    ELSE CheckValue(st, rule_id, rule, value[1], timestamp)

\* check_alerts, lines 122-142, for a rule whose metric resolves to `value`
\* (an Optional).
CheckResolved(st, rule_id, rule, value, timestamp) ==
    IF ~rule.enabled THEN st
    ELSE IF value = None THEN st
    ELSE CheckValue(st, rule_id, rule, value[1], timestamp)

\* check_alerts, lines 122-164: one pass through the body of its loop.  The
\* symbol of the rule is read (line 125) and is compared with nothing.
CheckRule(st, rule_id, rule, metrics, timestamp) ==
    CheckResolved(st, rule_id, rule, MetricValue(metrics, rule.metric), timestamp)

\* check_alerts(metrics) at time `timestamp` (ms), over the rules in the order
\* of the dict: the rule set and the alert log afterwards, and the events
\* appended.
check_alerts(rules, history, metrics, timestamp) ==
    LET n == Len(rules.keys)
        Pass[i \in 0..n] ==
            IF i = 0 THEN [rules |-> rules, history |-> history, appended |-> <<>>]
            ELSE CheckRule(Pass[i - 1], rules.keys[i], rules.at[rules.keys[i]],
                           metrics, timestamp)
    IN  Pass[n]

\* What one evaluation adds to the observer: a is the result of check_alerts.
LogEvaluation(log, rules, metrics, a) ==
    [events |-> log.events \o a.appended,
     evaluations |-> log.evaluations + 1,
     metrics |-> Some(metrics),
     rules |-> rules,
     appended |-> a.appended]

(***************************************************************************)
(* main.py: the alert-rule endpoints                                       *)
(***************************************************************************)
\* An AlertRuleRequest that passed the type validation of the framework
\* (models.py: symbol, metric and condition are any str, threshold a float,
\* enabled a bool).
AlertRuleRequest(symbol, metric, condition, threshold, enabled) ==
    [symbol |-> symbol, metric |-> metric, condition |-> condition,
     threshold |-> threshold, enabled |-> enabled]

\* create_alert_rule, lines 337-345.
NewRule(rule_id, request) ==
    [rule_id |-> rule_id,
     symbol |-> request.symbol,
     metric |-> request.metric,
     condition |-> request.condition,
     threshold |-> request.threshold,
     enabled |-> request.enabled,
     triggered_count |-> 0]

\* create_alert_rule with the uuid drawn: the rule set afterwards and the HTTP
\* status.
create_alert_rule(rules, rule_id, request) ==
    [rules |-> Put(rules, rule_id, NewRule(rule_id, request)), status |-> 200]

\* An update that also starts the count of the rule again.
UpdatedRuleResets(rule, request) ==
    [rule EXCEPT !.symbol = request.symbol,
                 !.metric = request.metric,
                 !.condition = request.condition,
                 !.threshold = request.threshold,
                 !.enabled = request.enabled,
                 !.triggered_count = 0]

\* update_alert_rule, lines 367-373: dict.update of the five request fields.
UpdatedRule(rule, request) ==
    [rule EXCEPT !.symbol = request.symbol,
                 !.metric = request.metric,
                 !.condition = request.condition,
                 !.threshold = request.threshold,
                 !.enabled = request.enabled]

\* An update that creates the rule when the id is unknown.
UpdateOrCreateRule(rules, rule_id, request) ==
    IF ~Has(rules, rule_id)
    THEN [rules |-> Put(rules, rule_id, NewRule(rule_id, request)), status |-> 200]
    ELSE [rules |-> Put(rules, rule_id, UpdatedRule(rules.at[rule_id], request)),
          status |-> 200]

\* update_alert_rule.
update_alert_rule(rules, rule_id, request) ==
    IF ~Has(rules, rule_id) THEN [rules |-> rules, status |-> 404]
    ELSE [rules |-> Put(rules, rule_id, UpdatedRule(rules.at[rule_id], request)),
          status |-> 200]

\* delete_alert_rule.
delete_alert_rule(rules, rule_id) ==
    IF ~Has(rules, rule_id) THEN [rules |-> rules, status |-> 404]
    ELSE [rules |-> Del(rules, rule_id), status |-> 200]

(***************************************************************************)
(* main.py: save_alerts_to_db and load_alerts_from_db                      *)
(***************************************************************************)
\* A row of the table alerts (data_handler.py, lines 254-265) as
\* save_alerts_to_db inserts it for a rule, lines 434-448, without the columns
\* id and created_at, which nothing reads: the column enabled is an INTEGER,
\* so it holds 1 for True and 0 for False.
AlertRow(rule) ==
    [rule_id |-> rule.rule_id,
     symbol |-> rule.symbol,
     metric |-> rule.metric,
     condition |-> rule.condition,
     threshold |-> rule.threshold,
     enabled |-> IF rule.enabled THEN 1 ELSE 0,
     triggered_count |-> rule.triggered_count]

\* save_alerts_to_db, lines 424-452: every row is deleted and one row is
\* inserted for each rule, in the order of the dict.  When sqlite raises
\* (ok is false) the exception is caught, nothing was committed and the table
\* keeps its rows.
save_alerts_to_db(table, rules, ok) ==
    IF ~ok THEN table
    ELSE [keys |-> rules.keys,
          at |-> [k \in DOMAIN rules.at |-> AlertRow(rules.at[k])]]

\* load_alerts_from_db, lines 466-475: the rule made of a row.
RuleOfRow(row) ==
    [rule_id |-> row.rule_id,
     symbol |-> row.symbol,
     metric |-> row.metric,
     condition |-> row.condition,
     threshold |-> row.threshold,
     enabled |-> row.enabled # 0,
     triggered_count |-> row.triggered_count]

\* load_alerts_from_db, lines 455-480: each row, in the order of the table,
\* is stored in the rule set under its rule_id.  When sqlite raises (ok is
\* false) the exception is caught before any row is read.
load_alerts_from_db(rules, table, ok) ==
    LET n == Len(table.keys)
        Pass[i \in 0..n] ==
            IF i = 0 THEN rules
            ELSE Put(Pass[i - 1], table.keys[i], RuleOfRow(table.at[table.keys[i]]))
    IN  IF ok THEN Pass[n] ELSE rules

(***************************************************************************)
(* main.py: the sampling task                                              *)
(***************************************************************************)
\* The sink (TickDatabase) is outside the model; a write to it may raise.  A
\* fault names the window (by position in the flush, 0 for none) and the write
\* that raises while that window is handled.
NoFault == [at |-> 0, op |-> "none"]
Faults == {NoFault} \cup
          {[at |-> i, op |-> o] : i \in 1..Len(SYMBOLS),
                                  o \in {"insert_window", "insert_metrics"}}

\* sampling_task, line 101: the state after check_alerts(metrics) returned a.
AlertsChecked(st, metrics, a) ==
    [st EXCEPT !.rules = a.rules,
               !.history = a.history,
               !.alert_log = LogEvaluation(st.alert_log, st.rules, metrics, a)]

\* sampling_task, lines 98-101: insert_metrics, then check_alerts unless an
\* exception (of process_window or of insert_metrics) has left the loop.
\* metrics is the Optional result of process_window.
AfterInsertMetrics(st, metrics, timestamp, raised) ==
    [st |-> IF raised THEN st
            ELSE AlertsChecked(st, metrics[1],
                               check_alerts(st.rules, st.history, metrics[1], timestamp)),
     raised |-> raised]

\* The body of the loop "for symbol, window in windows.items()" of
\* sampling_task after process_window returned or raised with result r, for
\* window number i of the flush: the state afterwards and whether an exception
\* left the loop (process_window raised, or insert_metrics did).
\* st is [engine, history_log, calls, rules, history, alert_log].
AfterProcessWindow(st, window, i, fault, r) ==
    AfterInsertMetrics([st EXCEPT !.engine = r.engine,
                                  !.history_log = LogCall(st.history_log, window, r),
                                  !.calls = Append(st.calls, CallRecord(st.engine, window, r))],
                       r.metrics,
                       window.timestamp,
                       r.raised \/ (fault.at = i /\ fault.op = "insert_metrics"))

\* One pass through the body of the loop: insert_window, process_window,
\* insert_metrics, check_alerts.
HandleWindow(st, window, i, fault) ==
    IF fault.at = i /\ fault.op = "insert_window" THEN [st |-> st, raised |-> TRUE]
    ELSE AfterProcessWindow(st, window, i, fault, process_window(st.engine, window))

\* The loop over the windows of a flush.  An exception (a sink write that
\* raises, or process_window raising) leaves the loop: the try block of
\* sampling_task encloses the whole loop, so the windows not yet handled are
\* dropped.
HandleWindows(st, windows, fault) ==
    LET n == Len(windows.keys)
        Pass[i \in 0..n] ==
            IF i = 0 THEN [st |-> st, raised |-> FALSE]
            ELSE LET before == Pass[i - 1]
                 IN  IF before.raised THEN before
                     ELSE HandleWindow(before.st, windows.at[windows.keys[i]], i, fault)
    IN  Pass[n].st

\* The observers of the alert rules before anything happened.
NoEvaluation ==
    [events |-> <<>>, evaluations |-> 0, metrics |-> None, rules |-> EmptyDict,
     appended |-> <<>>]
NoCommand ==
    [count |-> 0, created |-> 0, op |-> "none", rule_id |-> "", request |-> None,
     status |-> 0]

\* No query has been made since the last window, no indicator computed.  The
\* observer keeps the results of the queries made (seen) only in the
\* behaviours that start with a function there (NoneSeen) instead of None.
NoQuery ==
    [op |-> "none", symbol |-> "", limit |-> 0, result |-> None, previous |-> None,
     seen |-> None]
NoneSeen == Some(<<>>)
NoIndicator == [op |-> "none", values |-> <<>>, period |-> 0, result |-> None]
\* The faults met so far, by kind (a message that yields no tick, a sampling
\* iteration left by an exception, a listen loop that ended), and what has
\* happened since the last of them: a tick was buffered, a flush cached a
\* snapshot.  The observer keeps them only in the behaviours that start with
\* a record there (NoFaultYet) instead of None.
NoFaultLog == None
NoFaultYet ==
    Some([bad_message |-> FALSE, failed_flush |-> FALSE, disconnected |-> FALSE,
          ticks_after |-> FALSE, snapshots_after |-> FALSE])
Faulted(log) ==
    log # None /\ (log[1].bad_message \/ log[1].failed_flush \/ log[1].disconnected)
Noted(log, kind) ==
    IF log = None THEN log
    ELSE Some([log[1] EXCEPT ![kind] = TRUE, !.ticks_after = FALSE,
                             !.snapshots_after = FALSE])
Recovered(log, what, happened) ==
    IF Faulted(log) /\ happened THEN Some([log[1] EXCEPT ![what] = TRUE]) ELSE log

\* The state after the module is loaded: the buffer and the engine are
\* constructed, no client exists yet (ws_client is None), there is no alert
\* rule and no alert event.
InitModule ==
    /\ now = 0
    /\ tick_buffer = NewTickBuffer(0)
    /\ analytics_engine = NewEngine
    /\ history_log = EmptyHistoryLog
    /\ call_log = <<>>
    /\ sample_log = [flushes |-> 0, skipped |-> 0, flushed |-> EmptyDict,
                     windows |-> EmptyDict, fault |-> NoFault]
    /\ tick_log = [added |-> [s \in Symbols |-> 0], emitted |-> [s \in Symbols |-> 0]]
    /\ backoff_log = [waits |-> <<>>, failures |-> 0]
    /\ alert_rules = EmptyDict
    /\ alert_history = <<>>
    /\ close_task = [pc |-> "idle", at |-> "none"]
    /\ alert_log = NoEvaluation
    /\ command_log = NoCommand
    /\ msg_log = [handled |-> 0, well_formed |-> TRUE, on_tick |-> 0]

\* No backtest has been called.
NoBacktest ==
    [symbol |-> "", prices |-> <<>>, entry_threshold |-> Zero, exit_threshold |-> Zero,
     result |-> None]

\* startup_event has run on a database whose table alerts has no row (the
\* first run of the program): it loaded no rule.
Started ==
    /\ startup_task = [pc |-> "done"]
    /\ alerts_table = EmptyDict

InitCore == InitModule /\ Started

InitProgram ==
    /\ InitCore
    /\ query_log = NoQuery
    /\ backtest_log = NoBacktest
    /\ indicator_log = NoIndicator
    /\ fault_log = NoFaultLog

\* BinanceWebSocketClient.__init__
NewClient ==
    [is_connected |-> FALSE, connect_time |-> None, ticks_received |-> 0,
     last_tick_timestamp |-> None, reconnect_attempts |-> 0]

\* The rule an earlier run of the program has left in the table alerts: the
\* rule of the alert scenario, saved by the last command of that run when it
\* had been triggered once (the count of a rule in the table is the count at
\* the last save, whatever check_alerts added afterwards).
StoredRuleId == "rule-0"
StoredRule ==
    [rule_id |-> StoredRuleId, symbol |-> "BTCUSDT", metric |-> "z_score",
     condition |-> ">", threshold |-> R(2), enabled |-> TRUE, triggered_count |-> 1]
\* The tables the program may find when it starts: no row, or the row of the
\* stored rule.
StoredTables ==
    {save_alerts_to_db(EmptyDict, rules, TRUE) :
        rules \in {EmptyDict, Put(EmptyDict, StoredRuleId, StoredRule)}}

\* The state after the module is loaded, before startup_event runs: the table
\* alerts holds what an earlier run saved.
Init ==
    /\ InitModule
    /\ query_log = NoQuery
    /\ backtest_log = NoBacktest
    /\ indicator_log = NoIndicator
    /\ fault_log = NoFaultLog
    /\ startup_task = [pc |-> "start"]
    /\ alerts_table \in StoredTables
    /\ ws_client = None
    /\ connect_task = [pc |-> "start", wait_time |-> None, calls |-> 0, exit |-> "none"]

\* The state once startup_event has run on an empty table, before any of the
\* tasks it creates has run.
InitStarted ==
    /\ InitProgram
    /\ ws_client = None
    /\ connect_task = [pc |-> "start", wait_time |-> None, calls |-> 0, exit |-> "none"]

\* startup_event, lines 171-183: load_alerts_from_db(), then the three tasks
\* are created (each starts at a later step).
StartupEvent ==
    /\ startup_task.pc = "start"
    /\ \E ok \in BOOLEAN :
          alert_rules' = load_alerts_from_db(alert_rules, alerts_table, ok)
    /\ startup_task' = [pc |-> "done"]
    /\ UNCHANGED <<now, tick_buffer, analytics_engine, ws_client, connect_task,
                   history_log, call_log, sample_log, tick_log, backoff_log,
                   alert_history, alerts_table, alert_log, command_log, queryVars,
                   readVars>>

\* The window that a flush at time t builds from one tick.
OneTickWindow(symbol, price, quantity, t) ==
    Aggregate(symbol, <<Tick(JNum(Time(t) * 1000), symbol, price, quantity)>>,
              Time(t) * 1000)

\* What a direct call of process_window with result r leaves behind.
Called(window, r) ==
    /\ analytics_engine' = r.engine
    /\ history_log' = LogCall(history_log, window, r)
    /\ call_log' = <<CallRecord(analytics_engine, window, r)>>

\* A direct call analytics_engine.process_window(window), one sampling
\* interval after the previous one.
ProcessWindowCall ==
    /\ now < MaxNow
    /\ now' = now + 1
    /\ \E symbol \in Symbols, price \in TickPrices, quantity \in UnitQuantities :
          Called(OneTickWindow(symbol, price, quantity, now + 1),
                 process_window(analytics_engine,
                                OneTickWindow(symbol, price, quantity, now + 1)))
    /\ query_log' = [NoQuery EXCEPT !.seen = IF query_log.seen = None THEN None ELSE NoneSeen]
    /\ UNCHANGED <<tick_buffer, ws_client, connect_task, sample_log, tick_log, backoff_log,
                   alertVars, queryVars, indicator_log, fault_log>>

\* The state once connect() has connected and is listening, at time 0.
Listening ==
    /\ ws_client = [NewClient EXCEPT !.is_connected = TRUE,
                                     !.connect_time = Some(Time(0))]
    /\ connect_task = [pc |-> "listening", wait_time |-> None, calls |-> 1, exit |-> "none"]

InitListening == InitProgram /\ Listening

\* The same state, with the faults met from then on recorded.
InitFaults ==
    /\ InitCore
    /\ query_log = NoQuery
    /\ backtest_log = NoBacktest
    /\ indicator_log = NoIndicator
    /\ fault_log = NoFaultYet
    /\ Listening

(***************************************************************************)
(* The WebSocket task: connect() and _listen()                             *)
(***************************************************************************)
\* websocket_task creates the client (lines 70-71) and calls connect(): the
\* loop condition holds (no attempt has failed yet) and the first ws_connect
\* is awaited.
StartConnect ==
    /\ startup_task.pc = "done"
    /\ connect_task.pc = "start"
    /\ ws_client' = NewClient
    /\ connect_task' = [pc |-> LoopHead(NewClient), wait_time |-> None, calls |-> 1,
                        exit |-> "none"]
    /\ UNCHANGED <<now, tick_buffer, analytics_engine, history_log,
                   call_log, sample_log, tick_log, backoff_log, alertVars, queryVars, readVars>>

\* ws_connect returns: lines 53-58, then _listen() runs.
ConnectSucceeds ==
    /\ connect_task.pc = "connecting"
    /\ ws_client' = [ws_client EXCEPT !.is_connected = TRUE,
                                      !.reconnect_attempts = 0,
                                      !.connect_time = Some(Time(now))]
    /\ connect_task' = [connect_task EXCEPT !.pc = "listening", !.wait_time = None]
    /\ backoff_log' = [waits |-> <<>>, failures |-> 0]
    /\ UNCHANGED <<now, tick_buffer, analytics_engine, history_log, call_log,
                   sample_log, tick_log, alertVars, queryVars, readVars>>

\* ws_connect raises: lines 60-71.  Either the bound is reached and the break
\* of line 67 leaves the loop through the finally block (which awaits
\* session.close()), or the backoff sleep starts.
ConnectFails ==
    /\ connect_task.pc = "connecting"
    /\ \E jitter \in Jitters :
          LET client == [ws_client EXCEPT !.is_connected = FALSE,
                                          !.reconnect_attempts = @ + 1]
              wait_time == exponential_backoff(BackoffAttempt(client), jitter)
          IN  /\ ws_client' = client
              /\ IF MaxAttemptsReached(client.reconnect_attempts)
                 THEN /\ connect_task' = [connect_task EXCEPT !.pc = "finally",
                                                               !.wait_time = None,
                                                               !.exit = "break"]
                      /\ backoff_log' = [backoff_log EXCEPT !.failures = @ + 1]
                 ELSE /\ connect_task' = [connect_task EXCEPT !.pc = "sleeping",
                                                               !.wait_time = Some(wait_time)]
                      /\ backoff_log' = [waits |-> Append(backoff_log.waits, wait_time),
                                         failures |-> backoff_log.failures + 1]
    /\ UNCHANGED <<now, tick_buffer, analytics_engine, history_log, call_log,
                   sample_log, tick_log, alertVars, queryVars, readVars>>

\* asyncio.sleep(wait_time) returns: the except block is over and the finally
\* block awaits session.close() (lines 73-75).
BackoffElapses ==
    /\ connect_task.pc = "sleeping"
    /\ connect_task' = [connect_task EXCEPT !.pc = "finally", !.wait_time = None,
                                            !.exit = "sleep"]
    /\ UNCHANGED <<now, tick_buffer, analytics_engine, ws_client, history_log,
                   call_log, sample_log, tick_log, backoff_log, alertVars, queryVars, readVars>>

\* _listen() ends: a CLOSED or ERROR frame breaks its loop, the stream ends, or
\* an exception is caught at line 89.  In every case _listen() returns
\* normally, so connect() skips its except block: the finally block awaits
\* session.close() (lines 73-75), with is_connected and reconnect_attempts as
\* ConnectSucceeds left them.
ListenEnds ==
    /\ connect_task.pc = "listening"
    /\ \E cause \in {"closed", "error", "exception", "end_of_stream"} :
          connect_task' = [connect_task EXCEPT !.pc = "finally", !.wait_time = None,
                                                  !.exit = "listen"]
    /\ fault_log' = Noted(fault_log, "disconnected")
    /\ UNCHANGED <<now, tick_buffer, analytics_engine, ws_client, history_log,
                   call_log, sample_log, tick_log, backoff_log, alertVars, queryVars,
                   query_log, indicator_log>>

\* session.close() of the finally block returns (line 75): after the break of
\* line 67 connect() returns; otherwise the loop condition of line 42 is
\* evaluated and the next attempt starts (session, ws_connect) or connect()
\* returns.
SessionCloses ==
    /\ connect_task.pc = "finally"
    /\ connect_task' = [connect_task EXCEPT
                           !.pc = IF connect_task.exit = "break" THEN "returned"
                                  ELSE LoopHead(ws_client),
                           !.exit = "none"]
    /\ UNCHANGED <<now, tick_buffer, analytics_engine, ws_client, history_log,
                   call_log, sample_log, tick_log, backoff_log, alertVars, queryVars, readVars>>

\* session.close() of the finally block raises: the exception leaves
\* connect(), and websocket_task with it (main.py, line 71).
SessionCloseRaises ==
    /\ connect_task.pc = "finally"
    /\ connect_task' = [connect_task EXCEPT !.pc = "raised", !.exit = "none"]
    /\ UNCHANGED <<now, tick_buffer, analytics_engine, ws_client, history_log,
                   call_log, sample_log, tick_log, backoff_log, alertVars, queryVars, readVars>>

\* ws_client.close() is called: it awaits ws.close() and session.close()
\* (lines 128-131), so connect() may run before close() goes on.  A closed ws
\* ends the loop of _listen and a closed session fails a ws_connect in flight:
\* both are steps connect() can take at any time (ListenEnds, ConnectFails).
\* close_task.at keeps where connect() stood when close() was called.
CloseStarts ==
    /\ close_task.pc = "idle"
    /\ ws_client # None
    /\ close_task' = [pc |-> "closing", at |-> connect_task.pc]
    /\ UNCHANGED <<now, tick_buffer, analytics_engine, ws_client, connect_task,
                   history_log, call_log, sample_log, tick_log, backoff_log,
                   alertVars, msg_log, backtest_log, readVars>>

\* close(), lines 128-132, when both awaits return: line 132 and the return.
CloseEnds ==
    /\ close_task.pc = "closing"
    /\ ws_client' = [ws_client EXCEPT !.is_connected = FALSE]
    /\ close_task' = [close_task EXCEPT !.pc = "closed"]
    /\ UNCHANGED <<now, tick_buffer, analytics_engine, connect_task,
                   history_log, call_log, sample_log, tick_log, backoff_log,
                   alertVars, msg_log, backtest_log, readVars>>

\* close(), lines 128-131: ws.close() or session.close() raises and close()
\* ends with the exception, before line 132: is_connected is left as it is.
\* (The session exists once connect() has begun its first pass.)
CloseRaises ==
    /\ close_task.pc = "closing"
    /\ close_task' = [close_task EXCEPT !.pc = "raised"]
    /\ UNCHANGED <<now, tick_buffer, analytics_engine, ws_client, connect_task,
                   history_log, call_log, sample_log, tick_log, backoff_log,
                   alertVars, msg_log, backtest_log, readVars>>

\* on_tick_received(tick), awaited by _handle_message at line 115:
\* tick_buffer.add(tick), then db.insert_tick(tick) (a sink write; if it
\* raises, the except block of _handle_message catches it, after the add).
OnTick(tick) ==
    /\ tick_buffer' = BufferAdd(tick_buffer, tick)
    /\ tick_log' = [tick_log EXCEPT !.added[tick.symbol] = @ + 1]

\* What _handle_message does with the Optional tick of the message.
Received(msg, tick) ==
    /\ msg_log' = [handled |-> msg_log.handled + 1,
                   well_formed |-> WellFormed(msg),
                   on_tick |-> msg_log.on_tick + IF tick = None THEN 0 ELSE 1]
    /\ fault_log' = IF tick = None THEN Noted(fault_log, "bad_message")
                    ELSE Recovered(fault_log, "ticks_after", TRUE)
    /\ IF tick = None
       THEN UNCHANGED <<ws_client, tick_buffer, tick_log>>
       ELSE /\ ws_client' = CountTick(ws_client, TimestampSeen(msg.fields, now))
            /\ OnTick(tick[1])

\* _listen() receives a TEXT frame and awaits _handle_message(msg.data), which
\* catches every exception.
HandleMessage(messages) ==
    /\ connect_task.pc = "listening"
    /\ msg_log.handled < MaxTicks
    /\ \E msg \in messages : Received(msg, TickOf(msg, now))
    /\ UNCHANGED <<now, analytics_engine, connect_task, history_log, call_log,
                   sample_log, backoff_log, alertVars, close_task, backtest_log,
                   query_log, indicator_log>>

(***************************************************************************)
(* The sampling task                                                       *)
(***************************************************************************)
\* An exception left the loop over the windows: a sink write raised, or a
\* process_window call did.
Failed(fault, calls) == fault # NoFault \/ \E i \in 1..Len(calls) : calls[i].raised

\* What the loop over the windows leaves behind: st is the result of
\* HandleWindows.
Handled(f, fault, st) ==
    /\ analytics_engine' = st.engine
    /\ history_log' = st.history_log
    /\ call_log' = st.calls
    /\ alert_rules' = st.rules
    /\ alert_history' = st.history
    /\ alert_log' = st.alert_log
    /\ sample_log' = [flushes |-> sample_log.flushes + 1,
                      skipped |-> sample_log.skipped,
                      flushed |-> tick_buffer.buffer,
                      windows |-> f.windows,
                      fault |-> fault]
    /\ fault_log' = IF Failed(fault, st.calls) THEN Noted(fault_log, "failed_flush")
                    ELSE Recovered(fault_log, "snapshots_after",
                                   \E i \in 1..Len(st.calls) : st.calls[i].metrics # None)

\* sampling_task, lines 90-103: f is the result of tick_buffer.flush().
Sampled(f, fault) ==
    /\ fault.at <= Len(f.windows.keys)
    /\ tick_buffer' = f.tick_buffer
    /\ tick_log' = [tick_log EXCEPT !.emitted =
                      [s \in Symbols |->
                         @[s] + IF Has(f.windows, s) THEN f.windows.at[s].tick_count ELSE 0]]
    /\ Handled(f, fault,
               HandleWindows([engine |-> analytics_engine,
                              history_log |-> history_log,
                              calls |-> <<>>,
                              rules |-> alert_rules,
                              history |-> alert_history,
                              alert_log |-> alert_log],
                             f.windows, fault))

\* One iteration of sampling_task, lines 84-103, when time.time() has advanced
\* by `elapsed` intervals while asyncio.sleep(SAMPLING_INTERVAL) was awaited.
\* The rest of the iteration runs without an await: the should_flush check
\* (line 87, `continue` when it is false), the flush, and the handling of
\* every window.
SamplingAfter(elapsed) ==
    /\ startup_task.pc = "done"
    /\ now + elapsed <= MaxNow
    /\ sample_log.flushes < MaxFlushes
    /\ now' = now + elapsed
    /\ IF ~should_flush(tick_buffer, now', 5000)
       THEN /\ sample_log.skipped < MaxSkips
            /\ sample_log' = [sample_log EXCEPT !.skipped = @ + 1]
            /\ UNCHANGED <<tick_buffer, analytics_engine, history_log, call_log,
                           tick_log, alert_rules, alert_history, alert_log, fault_log>>
       ELSE \E fault \in Faults :
               Sampled(Flush(tick_buffer, now'), fault)
    /\ UNCHANGED <<ws_client, connect_task, backoff_log, alerts_table, startup_task,
                   command_log, queryVars, query_log, indicator_log>>

\* One iteration of sampling_task in which the sleep returns one interval
\* later by the wall clock.
SamplingIteration == SamplingAfter(1)

\* One iteration of sampling_task under a wall clock that the sleep does not
\* bound: the sleep is timed by the event loop's monotonic clock, should_flush
\* and flush read time.time(), which may have been set back by the time slept
\* (no advance), or have advanced by one interval or by two.
WallClockSteps == 0..2
SamplingOnWallClock == \E elapsed \in WallClockSteps : SamplingAfter(elapsed)

(***************************************************************************)
(* The backtest endpoint                                                   *)
(***************************************************************************)
\* What a backtest on prices with result r leaves behind.
Backtested(symbol, prices, entry_threshold, exit_threshold, r) ==
    /\ analytics_engine' = r.engine
    /\ backtest_log' = [symbol |-> symbol, prices |-> prices,
                        entry_threshold |-> entry_threshold,
                        exit_threshold |-> exit_threshold, result |-> Some(r.result)]

\* GET /backtest/{symbol}: backtest_symbol calls
\* analytics_engine.backtest_mean_reversion(symbol.upper()) with the default
\* thresholds 2.0 and 0.0 and returns its result with the symbol added.
BacktestCall ==
    /\ \E symbol \in Symbols :
          Backtested(symbol, GetDefault(analytics_engine.price_history, symbol),
                     R(2), Zero,
                     backtest_mean_reversion(analytics_engine, symbol, R(2), Zero))
    /\ UNCHANGED <<now, tick_buffer, ws_client, connect_task, history_log, call_log,
                   sample_log, tick_log, backoff_log, alertVars, close_task, msg_log, readVars>>

\* The price series of the replays: twenty prices (nineteen of 100, then 101)
\* followed by at most MaxTail prices of ReplayPrices.
PricePrefix == [i \in 1..BacktestPeriod |-> IF i < BacktestPeriod THEN R(100) ELSE R(101)]
ReplayPrices == {R(90), R(100), R(101), R(110)}
Tails == UNION {[1..k -> ReplayPrices] : k \in 0..MaxTail}
\* Twenty prices that alternate between 990 and 1010 (mean 1000, std 10),
\* followed by a price 2.1 std above or below their mean and a return to it.
ChoppyPrefix == [i \in 1..BacktestPeriod |-> IF i % 2 = 1 THEN R(990) ELSE R(1010)]
ChoppySeries ==
    {ChoppyPrefix \o tail : tail \in {<<R(1021)>>, <<R(1021), R(1000)>>, <<R(979), R(1000)>>}}
ReplaySeries ==
    {PricePrefix \o tail : tail \in Tails} \cup {SubSeq(PricePrefix, 1, 19)} \cup ChoppySeries
EntryThresholds == {R(2)}
ExitThresholds == {Zero, R(1)}

\* The program with a backtest about to be called on a price history drawn
\* from `series` (the deque holds up to 500 prices), with thresholds drawn
\* from `entries` and `exits`.
InitReplay(series, entries, exits) ==
    /\ InitCore
    /\ ws_client = None
    /\ connect_task = [pc |-> "start", wait_time |-> None, calls |-> 0, exit |-> "none"]
    /\ backtest_log \in [symbol : {"BTCUSDT"}, prices : series, entry_threshold : entries,
                          exit_threshold : exits, result : {None}]
    /\ query_log = NoQuery
    /\ indicator_log = NoIndicator
    /\ fault_log = NoFaultLog

\* backtest_mean_reversion(symbol, entry_threshold, exit_threshold) on the
\* price history and with the thresholds drawn.
ReplayCall ==
    /\ backtest_log.symbol # ""
    /\ backtest_log.result = None
    /\ backtest_log' = [backtest_log EXCEPT !.result =
                          Some(Backtest(backtest_log.prices, backtest_log.entry_threshold,
                                        backtest_log.exit_threshold))]
    /\ UNCHANGED <<now, tick_buffer, analytics_engine, ws_client, connect_task,
                   history_log, call_log, sample_log, tick_log, backoff_log, alertVars,
                   close_task, msg_log, readVars>>

(***************************************************************************)
(* The indicators on a price series                                        *)
(***************************************************************************)
\* The price series: n prices from `first` on, `step` apart.
Ramp(first, step, n) == [i \in 1..n |-> R(first + step * (i - 1))]
IndicatorSeries == {Ramp(100, step, n) : step \in {-1, 0, 1}, n \in 0..MaxSeries}
RsiPeriods == {2, 14}

\* The program with an indicator about to be computed on a series drawn from
\* `series`, with a period drawn from `periods`.
InitIndicators(series, periods) ==
    /\ InitCore
    /\ ws_client = None
    /\ connect_task = [pc |-> "start", wait_time |-> None, calls |-> 0, exit |-> "none"]
    /\ query_log = NoQuery
    /\ backtest_log = NoBacktest
    /\ indicator_log \in [op : {"none"}, values : series, period : periods,
                           result : {None}]
    /\ fault_log = NoFaultLog

\* What computing an indicator leaves behind.
Computed(op, result) ==
    /\ indicator_log' = [indicator_log EXCEPT !.op = op, !.result = Some(result)]
    /\ UNCHANGED <<now, tick_buffer, analytics_engine, ws_client, connect_task,
                   history_log, call_log, sample_log, tick_log, backoff_log, alertVars,
                   queryVars, query_log, fault_log>>

\* utils.calculate_rsi(values, period) on the series and with the period drawn.
RsiCall ==
    /\ indicator_log.op = "none"
    /\ indicator_log.period > 0
    /\ Computed("calculate_rsi", calculate_rsi(indicator_log.values, indicator_log.period))

\* The lists handed to calculate_vwap: prices 0..MaxPrice+1, and volumes that
\* are zero, a half or one, each list of at most MaxTrades entries.
SeqsUpTo(S, n) == UNION {[1..k -> S] : k \in 0..n}
VwapPrices == SeqsUpTo({R(p) : p \in 0..(MaxPrice + 1)}, MaxTrades)
VwapVolumes == SeqsUpTo({Zero, Rat(1, 2), R(1)}, MaxTrades)

\* The program with calculate_vwap about to be called on lists drawn from
\* `prices` and `volumes`.
InitVwap(prices, volumes) ==
    /\ InitCore
    /\ ws_client = None
    /\ connect_task = [pc |-> "start", wait_time |-> None, calls |-> 0, exit |-> "none"]
    /\ query_log = NoQuery
    /\ backtest_log = NoBacktest
    /\ indicator_log \in [op : {"none"}, values : prices, volumes : volumes,
                           period : {0}, result : {None}]
    /\ fault_log = NoFaultLog

\* utils.calculate_vwap(prices, volumes) on the lists drawn.
VwapCall ==
    /\ indicator_log.op = "none"
    /\ Computed("calculate_vwap", calculate_vwap(indicator_log.values, indicator_log.volumes))

\* utils.calculate_mean(prices) on the prices drawn.
MeanCall ==
    /\ indicator_log.op = "none"
    /\ Computed("calculate_mean", calculate_mean(indicator_log.values))

\* The indicators of the snapshot that process_window computes once the
\* history of the instrument is the series drawn (lines 64-72).
SnapshotCall ==
    /\ indicator_log.op = "none"
    /\ indicator_log.period > 0
    /\ indicator_log.values # <<>>
    /\ Computed("process_window", SnapshotIndicators(indicator_log.values))

(***************************************************************************)
(* The query endpoints                                                     *)
(***************************************************************************)
\* The instruments asked about: a tracked one and one that is never flushed;
\* the limits asked for.
QuerySymbols == {"BTCUSDT", "XRPUSDT"}
Limits == 0..MaxLimit

\* The result that query q gave the last time it was made since the last
\* window, if the observer keeps the results and it was made.
Previous(seen, q) ==
    IF seen # None /\ q \in DOMAIN seen[1] THEN Some(seen[1][q]) ELSE None

\* The results kept once query q has given `result`.
Remember(seen, q, result) ==
    IF seen = None THEN None
    ELSE Some([x \in (DOMAIN seen[1]) \cup {q} |-> IF x = q THEN result ELSE seen[1][x]])

\* What a query with result r leaves behind.
Queried(op, symbol, limit, r) ==
    /\ analytics_engine' = r.engine
    /\ query_log' = [op |-> op, symbol |-> symbol, limit |-> limit,
                     result |-> Some(r.result),
                     previous |-> Previous(query_log.seen, <<op, symbol, limit>>),
                     seen |-> Remember(query_log.seen, <<op, symbol, limit>>, r.result)]
    /\ UNCHANGED <<now, tick_buffer, ws_client, connect_task, history_log, call_log,
                   sample_log, tick_log, backoff_log, alertVars, queryVars, indicator_log, fault_log>>

\* GET /analytics/{symbol}: analytics_engine.get_metrics(symbol.upper()).
GetMetricsCall(symbols) ==
    \E symbol \in symbols :
        Queried("get_metrics", symbol, 0, get_metrics(analytics_engine, symbol))

\* GET /analytics: analytics_engine.get_all_metrics().
GetAllMetricsCall ==
    Queried("get_all_metrics", "", 0, get_all_metrics(analytics_engine))

\* GET /price-history/{symbol}?limit=:
\* analytics_engine.get_price_history(symbol.upper(), limit).
GetPriceHistoryCall(symbols, limits) ==
    \E symbol \in symbols, limit \in limits :
        Queried("get_price_history", symbol, limit,
                get_price_history(analytics_engine, symbol, limit))

\* A call analytics_engine.detect_anomalies(symbol), with the default
\* z_threshold of 3.0.
DetectAnomaliesCall(symbols) ==
    \E symbol \in symbols :
        Queried("detect_anomalies", symbol, 0,
                detect_anomalies(analytics_engine, symbol, R(3)))

\* GET /status: get_status(), which reads the client and changes nothing.
GetStatusCall ==
    Queried("get_status", "", 0,
            [engine |-> analytics_engine, result |-> get_status(ws_client, now)])

\* GET /correlations: analytics_engine.get_correlation_matrix().
GetCorrelationMatrixCall ==
    Queried("get_correlation_matrix", "", 0, get_correlation_matrix(analytics_engine))

\* GET /clustering: analytics_engine.cluster_by_correlation(min_correlation=0.7).
ClusterCall ==
    Queried("cluster_by_correlation", "", 0,
            cluster_by_correlation(analytics_engine, Rat(7, 10)))

(***************************************************************************)
(* The alert rules: commands and evaluation                                *)
(***************************************************************************)
\* The rule ids uuid4 draws, in the order of creation (no id is drawn twice).
RuleIds == <<"rule-1", "rule-2", "rule-3", "rule-4">>
\* The ids a command may name: those, and the id of the stored rule.
RuleIdSet == {RuleIds[i] : i \in 1..Len(RuleIds)} \cup {StoredRuleId}

\* The requests of the alert scenario and its variations: the rule of the
\* scenario, the same rule disabled, a rule of the other symbol, and a rule
\* naming a metric that check_alerts does not map.
ScenarioRequest == AlertRuleRequest("BTCUSDT", "z_score", ">", R(2), TRUE)
AlertRequests ==
    {ScenarioRequest,
     AlertRuleRequest("BTCUSDT", "z_score", ">", R(2), FALSE),
     AlertRuleRequest("ETHUSDT", "price", "<=", R(100), TRUE),
     AlertRuleRequest("BTCUSDT", "sma_20", ">", R(0), TRUE)}

\* Requests naming a comparator or a metric outside the supported ones.
UnsupportedRequests ==
    {AlertRuleRequest("BTCUSDT", "z_score", "=>", R(2), TRUE),
     AlertRuleRequest("BTCUSDT", "sma_20", ">", R(0), TRUE)}

\* A metrics snapshot with the given z_score, mean_price and rsi.
Snapshot(symbol, z_score, mean_price, rsi) ==
    [timestamp |-> 0,
     symbol |-> symbol,
     mean_price |-> mean_price,
     std_price |-> RootZero,
     volatility |-> RootZero,
     z_score |-> z_score,
     sma_20 |-> mean_price,
     ema_20 |-> mean_price,
     rsi |-> rsi,
     correlation_btc_eth |-> None,
     garch_forecast |-> None,
     adf_pvalue |-> None,
     trend |-> "neutral"]

\* The snapshot of the alert scenario (z_score 3.1), a snapshot of the same
\* symbol below the threshold, and a snapshot of the other symbol.
ScenarioSnapshot == Snapshot("BTCUSDT", AsRoot(Rat(31, 10)), R(101), R(50))
AlertSnapshots ==
    {ScenarioSnapshot,
     Snapshot("BTCUSDT", AsRoot(R(1)), R(100), R(50)),
     Snapshot("ETHUSDT", AsRoot(Rat(31, 10)), R(100), R(50))}

\* What a command leaves behind: r is the result of the endpoint.  A command
\* that is not rejected ends with save_alerts_to_db(); a rejected one raises
\* its HTTPException before.
Commanded(op, rule_id, request, created, r) ==
    /\ startup_task.pc = "done"
    /\ alert_rules' = r.rules
    /\ IF r.status = 200
       THEN \E ok \in BOOLEAN :
               alerts_table' = save_alerts_to_db(alerts_table, r.rules, ok)
       ELSE alerts_table' = alerts_table
    /\ command_log' = [count |-> command_log.count + 1,
                       created |-> created,
                       op |-> op,
                       rule_id |-> rule_id,
                       request |-> request,
                       status |-> r.status]
    /\ UNCHANGED <<now, tick_buffer, analytics_engine, ws_client, connect_task,
                   history_log, call_log, sample_log, tick_log, backoff_log,
                   alert_history, startup_task, alert_log, queryVars, readVars>>

\* POST /alerts/rules.  The endpoints have no await before their return, so
\* each is one step.
CreateRule(requests) ==
    /\ command_log.count < MaxCommands
    /\ command_log.created < Len(RuleIds)
    /\ \E request \in requests :
          Commanded("create", RuleIds[command_log.created + 1], Some(request),
                    command_log.created + 1,
                    create_alert_rule(alert_rules, RuleIds[command_log.created + 1],
                                      request))

\* PUT /alerts/rules/{rule_id}.
UpdateRule(requests) ==
    /\ command_log.count < MaxCommands
    /\ \E rule_id \in RuleIdSet, request \in requests :
          Commanded("update", rule_id, Some(request), command_log.created,
                    update_alert_rule(alert_rules, rule_id, request))

\* DELETE /alerts/rules/{rule_id}.
DeleteRule ==
    /\ command_log.count < MaxCommands
    /\ \E rule_id \in RuleIdSet :
          Commanded("delete", rule_id, None, command_log.created,
                    delete_alert_rule(alert_rules, rule_id))

\* What a direct call of check_alerts with result a leaves behind.
Evaluated(metrics, a) ==
    /\ alert_rules' = a.rules
    /\ alert_history' = a.history
    /\ alert_log' = LogEvaluation(alert_log, alert_rules, metrics, a)

\* A direct call check_alerts(metrics), one sampling interval after the
\* previous one.
CheckAlertsCall(snapshots) ==
    /\ startup_task.pc = "done"
    /\ now < MaxNow
    /\ now' = now + 1
    /\ \E metrics \in snapshots :
          Evaluated(metrics,
                    check_alerts(alert_rules, alert_history, metrics, Time(now + 1) * 1000))
    /\ UNCHANGED <<tick_buffer, analytics_engine, ws_client, connect_task,
                   history_log, call_log, sample_log, tick_log, backoff_log,
                   alerts_table, startup_task, command_log, queryVars, readVars>>

(***************************************************************************)
(* Specifications                                                          *)
(***************************************************************************)
\* The running program: the WebSocket task and the sampling task.
Next ==
    \/ StartupEvent
    \/ StartConnect
    \/ ConnectSucceeds
    \/ ConnectFails
    \/ BackoffElapses
    \/ ListenEnds
    \/ SessionCloses
    \/ SessionCloseRaises
    \/ HandleMessage(ValidMessages(Symbols, TickPrices, UnitQuantities))
    \/ SamplingIteration
    \/ GetStatusCall

Spec == Init /\ [][Next]_vars

\* The analytics engine alone, driven by direct process_window calls.
NextHistory == ProcessWindowCall

SpecHistory == InitStarted /\ [][NextHistory]_vars

\* The connection loop alone: every pass of it ends in the finally block,
\* whose session.close() returns or raises.
NextConnect ==
    \/ StartConnect
    \/ ConnectSucceeds
    \/ ConnectFails
    \/ BackoffElapses
    \/ ListenEnds
    \/ SessionCloses
    \/ SessionCloseRaises

SpecConnect == InitStarted /\ [][NextConnect]_vars

\* The connection loop and a shutdown: close() called once, at any time after
\* the client exists.
NextShutdown ==
    \/ StartConnect
    \/ ConnectSucceeds
    \/ ConnectFails
    \/ BackoffElapses
    \/ ListenEnds
    \/ SessionCloses
    \/ SessionCloseRaises
    \/ CloseStarts
    \/ CloseEnds
    \/ CloseRaises

SpecShutdown == InitStarted /\ [][NextShutdown]_vars

\* The listening client fed with messages of every kind.
NextMessages ==
    \/ HandleMessage(ValidMessages(Symbols, TickPrices, UnitQuantities)
                     \cup MalformedMessages \cup OtherValidMessages)
    \/ GetStatusCall

SpecMessages == InitListening /\ [][NextMessages]_vars

\* The engine driven by direct process_window calls, and backtests run on it.
NextBacktest ==
    \/ ProcessWindowCall
    \/ BacktestCall

SpecBacktest == InitStarted /\ [][NextBacktest]_vars

\* The engine driven by direct process_window calls, and the queries made of
\* it in between.
NextQueries ==
    \/ ProcessWindowCall
    \/ GetMetricsCall(QuerySymbols)
    \/ GetAllMetricsCall
    \/ GetPriceHistoryCall(QuerySymbols, Limits)
    \/ DetectAnomaliesCall(QuerySymbols)
    \/ GetCorrelationMatrixCall
    \/ ClusterCall

SpecQueries == InitStarted /\ [][NextQueries]_vars

\* The same with the results of the queries kept, for the queries of one
\* tracked instrument and one that is never flushed.
InitRepeat ==
    /\ InitCore
    /\ query_log = [NoQuery EXCEPT !.seen = NoneSeen]
    /\ backtest_log = NoBacktest
    /\ indicator_log = NoIndicator
    /\ fault_log = NoFaultLog
    /\ ws_client = None
    /\ connect_task = [pc |-> "start", wait_time |-> None, calls |-> 0, exit |-> "none"]

NextRepeat ==
    \/ ProcessWindowCall
    \/ GetMetricsCall({"BTCUSDT"})
    \/ GetPriceHistoryCall({"XRPUSDT"}, {MaxLimit})
    \/ GetCorrelationMatrixCall
    \/ ClusterCall

SpecRepeat == InitRepeat /\ [][NextRepeat]_vars

\* The indicators computed on rising, flat and falling price series.
NextIndicators ==
    \/ RsiCall
    \/ SnapshotCall

SpecIndicators == InitIndicators(IndicatorSeries, RsiPeriods) /\ [][NextIndicators]_vars

\* The volume-weighted and the plain mean of drawn prices.
NextVwap ==
    \/ VwapCall
    \/ MeanCall

SpecVwap == InitVwap(VwapPrices, VwapVolumes) /\ [][NextVwap]_vars

\* The replay of the backtest on price series of twenty prices and more.
NextReplay ==
    \/ ReplayCall

SpecReplay ==
    InitReplay(ReplaySeries, EntryThresholds, ExitThresholds) /\ [][NextReplay]_vars

\* The alert rules: rules are created and evaluated against snapshots.
NextAlerts ==
    \/ StartupEvent
    \/ CreateRule(AlertRequests)
    \/ CheckAlertsCall(AlertSnapshots)

SpecAlerts == Init /\ [][NextAlerts]_vars

\* The alert-rule commands, with supported and unsupported requests.
NextCommands ==
    \/ StartupEvent
    \/ CreateRule({ScenarioRequest} \cup UnsupportedRequests)
    \/ UpdateRule({ScenarioRequest} \cup UnsupportedRequests)
    \/ DeleteRule
    \/ CheckAlertsCall({ScenarioSnapshot})

SpecCommands == Init /\ [][NextCommands]_vars

\* Ingestion and sampling while the connection is up.
NextPipeline ==
    \/ HandleMessage(ValidMessages(Symbols, TickPrices, UnitQuantities))
    \/ SamplingIteration

SpecPipeline == InitListening /\ [][NextPipeline]_vars

\* Ingestion and sampling under a wall clock that the sleep does not bound,
\* fed with the trades of one instrument at one price.
SamplingSymbols == {"BTCUSDT"}
SamplingPrices == {R(1)}
NextSampling ==
    \/ HandleMessage(ValidMessages(SamplingSymbols, SamplingPrices, UnitQuantities))
    \/ SamplingOnWallClock

SpecSampling == InitListening /\ [][NextSampling]_vars

\* A momentary disconnect: the listen loop ends once, and at most one
\* connection attempt fails before the connection is made again.
ListenEndsOnce == fault_log # None /\ ~fault_log[1].disconnected /\ ListenEnds
ConnectFailsOnce == backoff_log.failures = 0 /\ ConnectFails

\* The ticks received: of one instrument, at prices of which 0 makes
\* process_window raise on the window after it.
FaultSymbols == {"BTCUSDT"}
FaultPrices == {Zero, R(1)}

\* Ingestion and sampling with faults: messages of every kind, sink writes
\* that raise, a listen loop that ends, connection attempts that fail and a
\* session.close() that raises in the finally block of connect().
NextFaults ==
    \/ HandleMessage(ValidMessages(FaultSymbols, FaultPrices, UnitQuantities)
                     \cup MalformedMessages)
    \/ SamplingIteration
    \/ ListenEndsOnce
    \/ ConnectSucceeds
    \/ ConnectFailsOnce
    \/ BackoffElapses
    \/ SessionCloses
    \/ SessionCloseRaises

SpecFaults == InitFaults /\ [][NextFaults]_vars

\* The same, fed with the trades of the end-to-end aggregation scenario.
NextScenario ==
    \/ HandleMessage(ValidMessages(ScenarioSymbols, ScenarioPrices, ScenarioQuantities))
    \/ SamplingIteration

SpecScenario == InitListening /\ [][NextScenario]_vars

(***************************************************************************)
(* Claims                                                                  *)
(***************************************************************************)
\* The four histories of a symbol, as sequences (empty when the key is absent).
Prices(s) == GetDefault(analytics_engine.price_history, s)
Volumes(s) == GetDefault(analytics_engine.volume_history, s)
Timestamps(s) == GetDefault(analytics_engine.timestamp_history, s)
Returns(s) == GetDefault(analytics_engine.returns_history, s)

\* q holds at most max_history elements and is the most recent part of what
\* was appended, in the order it was appended.
IsRecentSuffix(q, appended) ==
    /\ Len(q) <= max_history
    /\ Len(q) <= Len(appended)
    /\ (Len(appended) <= max_history => q = appended)
    /\ \A i \in 1..Len(q) : q[i] = appended[Len(appended) - Len(q) + i]
    /\ (Len(appended) >= max_history => Len(q) = max_history)

\* C1: after any sequence of process_window calls each of the four histories
\* of a symbol holds at most max_history elements and is the most recent
\* suffix of the values appended to it, in insertion order (the element
\* dropped on overflow is the oldest).
Theorem_C1 ==
    \A s \in Symbols :
        /\ IsRecentSuffix(Prices(s), history_log[s].price)
        /\ IsRecentSuffix(Volumes(s), history_log[s].volume)
        /\ IsRecentSuffix(Timestamps(s), history_log[s].timestamp)
        /\ IsRecentSuffix(Returns(s), history_log[s].ret)

\* C1, witness: more prices and more returns were appended for a symbol than
\* the histories hold, so both have dropped elements.
Witness_C1 ==
    \E s \in Symbols :
        /\ Len(history_log[s].price) > max_history
        /\ Len(history_log[s].ret) > max_history
        /\ Len(Returns(s)) = max_history

\* The number of process_window calls for a symbol that found a previous
\* price of 0, counted from the prices appended.
RECURSIVE ZeroPriors(_)
ZeroPriors(appended) ==
    IF Len(appended) < 2 THEN 0
    ELSE ZeroPriors(SubSeq(appended, 1, Len(appended) - 1))
         + (IF appended[Len(appended) - 1] = Zero THEN 1 ELSE 0)

Min(a, b) == IF a < b THEN a ELSE b

\* C2 as claimed: for every symbol with a recorded price, the returns history
\* is one shorter than the price history.
Original_C2 ==
    \A s \in Symbols :
        Prices(s) # <<>> => Len(Returns(s)) = Len(Prices(s)) - 1

\* The prices of a symbol that its full price history has dropped, after n
\* process_window calls.
Dropped(n) == IF n > max_history THEN n - max_history ELSE 0

\* C2, amended: with n process_window calls for a symbol, z of them with a
\* previous price of 0 (such a call appends no return), the price history
\* holds min(max_history, n) elements and the returns history
\* min(max_history, n - 1 - z); the returns history is one shorter than the
\* price history exactly when z equals the number of prices dropped,
\* max(0, n - max_history): with no price of 0, exactly while n <= max_history.
Theorem_C2 ==
    \A s \in Symbols :
        LET n == Len(history_log[s].price)
            z == ZeroPriors(history_log[s].price)
        IN  n >= 1 =>
              /\ Len(Prices(s)) = Min(max_history, n)
              /\ Len(Returns(s)) = Min(max_history, n - 1 - z)
              /\ Len(Returns(s)) = Len(Prices(s)) - 1 <=> z = Dropped(n)
              /\ z = 0 => (Len(Returns(s)) = Len(Prices(s)) - 1 <=> n <= max_history)

\* C2, witness: a symbol whose price history is full and has dropped an
\* element, with no previous price of 0: the two histories have the same
\* length.
Witness_C2 ==
    \E s \in Symbols :
        /\ Len(history_log[s].price) > max_history
        /\ ZeroPriors(history_log[s].price) = 0
        /\ Len(Returns(s)) = Len(Prices(s))

\* C3 as claimed: a process_window call that finds a previous price of exactly
\* 0 does not raise, appends no return, appends the price, volume and
\* timestamp of the window, and produces a metrics snapshot.
Claim_C3 ==
    \A i \in 1..Len(call_log) :
        LET c == call_log[i]
        IN  c.prior = Some(Zero) =>
              /\ ~c.raised
              /\ c.returns_after = c.returns_before
              /\ c.metrics # None
              /\ c.prices_after[Len(c.prices_after)] = c.window.mean_price
              /\ c.volumes_after[Len(c.volumes_after)] = c.window.total_volume
              /\ c.timestamps_after[Len(c.timestamps_after)] = c.window.timestamp

Buffered(s) == GetDefault(tick_buffer.buffer, s)

\* Every tick added is in the buffer or counted in a window already emitted.
TicksConserved ==
    \A s \in Symbols : tick_log.emitted[s] + Len(Buffered(s)) = tick_log.added[s]

\* A step that flushes leaves the buffer empty and last_flush at the time of
\* the flush.
FlushClears ==
    sample_log'.flushes # sample_log.flushes =>
        /\ tick_buffer'.buffer = EmptyDict
        /\ tick_buffer'.last_flush = Time(now')

\* C4: under any interleaving of the ingestion task's add calls and the
\* sampling task's flush calls, for each symbol the tick counts of the windows
\* emitted so far plus the ticks buffered equal the ticks added, and the step
\* that emits the windows also empties every buffer and sets last_flush.
Theorem_C4 == []TicksConserved /\ [][FlushClears]_vars

\* C4, witness: after two flushes a symbol has had a window in each of them
\* and has a tick buffered again.
Witness_C4 ==
    \E s \in Symbols :
        /\ sample_log.flushes = 2
        /\ Has(sample_log.windows, s)
        /\ tick_log.emitted[s] > sample_log.windows.at[s].tick_count
        /\ Len(Buffered(s)) >= 1

\* C5 as claimed: every window of the last flush has exactly one metrics
\* snapshot computed from it, and that snapshot is the cached latest snapshot
\* of its symbol, also when handling another window of the flush failed.
Claim_C5 ==
    \A s \in Symbols :
        Has(sample_log.windows, s) =>
            /\ Cardinality({i \in 1..Len(call_log) :
                              /\ call_log[i].window = sample_log.windows.at[s]
                              /\ call_log[i].metrics # None}) = 1
            /\ Has(analytics_engine.latest_metrics, s)
            /\ analytics_engine.latest_metrics.at[s].timestamp
                   = sample_log.windows.at[s].timestamp

\* The ticks of a symbol added since the previous flush.
Since(s) == tick_log.added[s] - tick_log.emitted[s]

\* A step that flushes emits a window for exactly the symbols with a tick
\* added since the previous flush, one window each, holding those ticks.
FlushEmits ==
    sample_log'.flushes # sample_log.flushes =>
        LET windows == sample_log'.windows
        IN  /\ \A s \in Symbols : Has(windows, s) <=> Since(s) >= 1
            /\ \A s \in Symbols :
                  Has(windows, s) => /\ windows.at[s].tick_count >= 1
                                     /\ windows.at[s].tick_count = Since(s)
                                     /\ windows.at[s].symbol = s
            /\ \A i, j \in 1..Len(windows.keys) :
                  windows.keys[i] = windows.keys[j] => i = j
            /\ {windows.keys[i] : i \in 1..Len(windows.keys)} = DOMAIN windows.at

\* C6: flush emits a window for a symbol if and only if at least one tick of
\* that symbol was added since the previous flush; every emitted window has
\* tick_count >= 1 and there is at most one window per symbol per flush.
Theorem_C6 == [][FlushEmits]_vars

\* C6, witness: a flush that emitted a window for one symbol and none for the
\* other.
Witness_C6 ==
    /\ sample_log.flushes >= 1
    /\ \E s, t \in Symbols : Has(sample_log.windows, s) /\ ~Has(sample_log.windows, t)

\* The last flush found exactly the three trades of the scenario: prices
\* 100, 101, 99 with quantities 1, 2, 1 of one symbol.
ScenarioFlushed ==
    /\ sample_log.flushes >= 1
    /\ sample_log.flushed.keys = <<"BTCUSDT">>
    /\ LET ticks == sample_log.flushed.at["BTCUSDT"]
       IN  /\ [i \in 1..Len(ticks) |-> ticks[i].price] = <<R(100), R(101), R(99)>>
           /\ [i \in 1..Len(ticks) |-> ticks[i].quantity] = <<R(1), R(2), R(1)>>

\* The window of the scenario, but for its vwap.
ScenarioWindow(w) ==
    /\ w.symbol = "BTCUSDT"
    /\ w.mean_price = R(100)
    /\ w.total_volume = R(4)
    /\ w.min_price = R(99)
    /\ w.max_price = R(101)
    /\ w.tick_count = 3

\* C7 as claimed: the flush yields one window with mean_price 100, total
\* volume 4, min 99, max 101, tick_count 3 and vwap 100.0.
Original_C7 ==
    ScenarioFlushed =>
        /\ sample_log.windows.keys = <<"BTCUSDT">>
        /\ ScenarioWindow(sample_log.windows.at["BTCUSDT"])
        /\ sample_log.windows.at["BTCUSDT"].vwap = R(100)

\* C7, amended: the flush yields one window with mean_price 100, total volume
\* 4, min 99, max 101, tick_count 3 and vwap (100 + 2 * 101 + 99) / 4 = 100.25.
Theorem_C7 ==
    ScenarioFlushed =>
        /\ sample_log.windows.keys = <<"BTCUSDT">>
        /\ ScenarioWindow(sample_log.windows.at["BTCUSDT"])
        /\ sample_log.windows.at["BTCUSDT"].vwap = Rat(10025, 100)

\* C7, witness: the three trades of the scenario were flushed.
Witness_C7 == ScenarioFlushed

\* C8 as claimed: every connection attempt but the first one of connect()
\* follows a backoff sleep, whether the previous attempt failed or the
\* connection it made was lost while listening.
Claim_C8 ==
    [][(connect_task'.pc = "connecting" /\ connect_task.pc # "start")
          => connect_task.exit = "sleep"]_vars

\* The part of a wait before the jitter (the jitter is below 1).
WaitBase(wait) == RFloor(wait)

\* The waits since the last successful connect never decrease (jitter apart)
\* and stay within max_wait.
WaitsNonDecreasing ==
    \A i \in 1..Len(backoff_log.waits) :
        /\ WaitBase(backoff_log.waits[i]) <= BackoffMaxWait
        /\ RLt(backoff_log.waits[i], R(BackoffMaxWait + 1))
        /\ i > 1 => WaitBase(backoff_log.waits[i - 1]) <= WaitBase(backoff_log.waits[i])

\* C9 as claimed: the waits of connect() are non-decreasing in the attempt
\* count up to max_wait, and the first wait after a successful connect (or
\* after the start) is the base value, 1.0 before jitter.
Claim_C9 ==
    /\ WaitsNonDecreasing
    /\ backoff_log.waits # <<>> => WaitBase(backoff_log.waits[1]) = BackoffBase

\* connect() ends only when max_reconnect_attempts attempts in a row have
\* failed, and then it closes the session and returns; with fewer failures it
\* sleeps, closes the session after the sleep or is attempting again.
StopsAtBound ==
    /\ connect_task.pc = "returned" => backoff_log.failures = max_reconnect_attempts
    /\ backoff_log.failures = max_reconnect_attempts
          => \/ connect_task.pc = "returned"
             \/ connect_task.pc = "finally" /\ connect_task.exit = "break"
    /\ backoff_log.failures <= max_reconnect_attempts
    /\ (backoff_log.failures >= 1 /\ backoff_log.failures < max_reconnect_attempts)
          => /\ connect_task.pc \in {"sleeping", "finally", "connecting"}
             /\ connect_task.pc = "finally" => connect_task.exit = "sleep"

\* Once connect() has returned nothing more happens in it, and a backoff
\* sleep is followed by the next attempt.
StopIsFinal ==
    /\ connect_task.pc = "returned" =>
          /\ connect_task'.pc = "returned"
          /\ backoff_log' = backoff_log
          /\ ws_client' = ws_client
    /\ (connect_task.pc = "finally" /\ connect_task.exit = "break")
          => /\ connect_task'.pc \in {"finally", "returned"}
             /\ backoff_log' = backoff_log
             /\ ws_client' = ws_client
    /\ connect_task.pc = "sleeping" => connect_task'.pc \in {"sleeping", "finally"}
    /\ (connect_task.pc = "finally" /\ connect_task.exit = "sleep")
          => connect_task'.pc \in {"finally", "connecting"}

\* C10 as claimed: after max_reconnect_attempts consecutive failed attempts
\* connect() returns and makes no further attempt and no further sleep;
\* before the bound is reached every failure is followed by a sleep and a new
\* attempt.  A session.close() that raises in the finally block (lines 73-75)
\* ends connect() after any failure, before the bound or at it.
Claim_C10 == []StopsAtBound /\ [][StopIsFinal]_vars

\* The status a caller of get_status sees: that of the response, or the error
\* when there is no response.
StatusShown(client, t) ==
    IF get_status(client, t) = None THEN "error" ELSE get_status(client, t)[1].status

\* C11 as claimed: once the retries are exhausted the status get_status
\* exposes differs from the one it exposed while the client was still
\* connecting: the step on which connect() gives up changes the status.
Claim_C11 ==
    [][(connect_task.pc = "connecting" /\ connect_task'.exit = "break")
          => StatusShown(ws_client', now') # StatusShown(ws_client, now)]_vars

\* C12 as claimed: once close() has returned, having been called while
\* connect() was listening or sleeping in backoff, connect() starts no new
\* connection attempt and is_connected stays false.
Claim_C12 ==
    [][(close_task.pc = "closed" /\ close_task.at \in {"listening", "sleeping"})
          => /\ (connect_task'.pc = "connecting" => connect_task.pc = "connecting")
             /\ ~ws_client'.is_connected]_vars

\* The ticks in the buffer, over all symbols.
RECURSIVE BufferedTicks(_, _)
BufferedTicks(buffer, keys) ==
    IF keys = <<>> THEN 0
    ELSE Len(buffer.at[Head(keys)]) + BufferedTicks(buffer, Tail(keys))

\* What handling one message changes: a well-formed message is counted once
\* and reaches on_tick once (one tick more in the buffer), whatever its field
\* T holds; any other message changes nothing of the client or the buffer.
MessageHandled ==
    msg_log'.handled # msg_log.handled =>
        IF msg_log'.well_formed
        THEN /\ ws_client'.ticks_received = ws_client.ticks_received + 1
             /\ msg_log'.on_tick = msg_log.on_tick + 1
             /\ BufferedTicks(tick_buffer'.buffer, tick_buffer'.buffer.keys)
                   = BufferedTicks(tick_buffer.buffer, tick_buffer.buffer.keys) + 1
        ELSE /\ ws_client' = ws_client
             /\ msg_log'.on_tick = msg_log.on_tick
             /\ tick_buffer' = tick_buffer

\* C13: a malformed or schema-mismatched message (invalid JSON, a missing s, p
\* or q field, a price or quantity that is no number) reaches no on_tick
\* callback and leaves ticks_received and last_tick_timestamp unchanged; each
\* valid message reaches on_tick exactly once and increments ticks_received
\* by exactly 1.
Theorem_C13 == [][MessageHandled]_vars

\* C13, witness: malformed and valid messages have been handled, the last one
\* malformed, and fewer ticks were counted than messages handled.
Witness_C13 ==
    /\ msg_log.handled = MaxTicks
    /\ ~msg_log.well_formed
    /\ ws_client.ticks_received >= 1
    /\ msg_log.on_tick = ws_client.ticks_received
    /\ ws_client.ticks_received < msg_log.handled

\* The step is an evaluation of the rules (a call of check_alerts).
IsEvaluation == alert_log'.evaluations # alert_log.evaluations

\* The events of the rule among those the last evaluation appended.
EventsOf(appended, rule_id) ==
    Cardinality({i \in 1..Len(appended) : appended[i].rule_id = rule_id})

\* C14 as claimed: an evaluation triggers a rule (appends an event for it)
\* only when the rule's symbol is the symbol of the snapshot evaluated.
Claim_C14 ==
    alert_log.metrics # None =>
        \A i \in 1..Len(alert_log.appended) :
            /\ alert_log.appended[i].symbol = alert_log.metrics[1].symbol
            /\ alert_log.rules.at[alert_log.appended[i].rule_id].symbol
                   = alert_log.metrics[1].symbol

\* The rule is the rule of the alert scenario (z_score > 2.0, enabled) and the
\* snapshot is one of its symbol with z_score 3.1.
ScenarioMatch(rule, metrics) ==
    /\ rule.enabled
    /\ rule.metric = "z_score"
    /\ rule.condition = ">"
    /\ rule.threshold = R(2)
    /\ rule.symbol = metrics.symbol
    /\ metrics.z_score = AsRoot(Rat(31, 10))

\* An evaluation raises the counter of each rule by the number of events it
\* appends for the rule, which is 0 or 1, and 1 for a match of the scenario;
\* with the rule of the scenario alone and its counter at 0, the evaluation of
\* the scenario's snapshot appends exactly one event and the counter becomes 1.
EvaluationCounts ==
    IsEvaluation =>
        /\ \A id \in DOMAIN alert_rules.at :
              LET d == alert_rules'.at[id].triggered_count - alert_rules.at[id].triggered_count
              IN  /\ d \in {0, 1}
                  /\ d = EventsOf(alert_log'.appended, id)
                  /\ ScenarioMatch(alert_rules.at[id], alert_log'.metrics[1]) => d = 1
        /\ alert_log'.events = alert_log.events \o alert_log'.appended
        /\ (alert_rules = Put(EmptyDict, RuleIds[1], NewRule(RuleIds[1], ScenarioRequest))
              /\ alert_log'.metrics = Some(ScenarioSnapshot))
           => /\ Len(alert_log'.appended) = 1
              /\ alert_log'.appended[1].rule_id = RuleIds[1]
              /\ alert_log'.appended[1].actual_value = AsRoot(Rat(31, 10))
              /\ alert_rules'.at[RuleIds[1]].triggered_count = 1
              /\ Len(alert_history') = Len(alert_history) + 1 \/ Len(alert_history) = MAX_ALERT_HISTORY

\* C15: with the rule {X, z_score, >, 2.0} enabled and its counter at 0,
\* evaluating a snapshot of X with z_score 3.1 appends exactly one event for
\* the rule and sets its counter to 1; in general each match increments the
\* counter by exactly 1 and appends exactly one event.
Theorem_C15 == [][EvaluationCounts]_vars

\* C15, witness: the scenario has run: one rule, the first evaluation, one
\* event in the log and the counter at 1.
Witness_C15 ==
    /\ alert_log.rules = Put(EmptyDict, RuleIds[1], NewRule(RuleIds[1], ScenarioRequest))
    /\ alert_log.metrics = Some(ScenarioSnapshot)
    /\ alert_log.evaluations = 1
    /\ Len(alert_history) = 1
    /\ alert_history[1].rule_id = RuleIds[1]
    /\ alert_rules.at[RuleIds[1]].triggered_count = 1

\* C16: the alert log holds at most MAX_ALERT_HISTORY events, and it is the
\* most recent events appended, in trigger order: an append beyond the cap
\* removes the oldest event.
Theorem_C16 ==
    /\ Len(alert_history) <= MAX_ALERT_HISTORY
    /\ alert_history = LastN(alert_log.events, MAX_ALERT_HISTORY)

\* C16, witness: the cap was exceeded more than once, by events of two rules.
Witness_C16 ==
    /\ Len(alert_log.events) >= MAX_ALERT_HISTORY + 2
    /\ Len(alert_history) = MAX_ALERT_HISTORY
    /\ \E i, j \in 1..Len(alert_log.events) :
          alert_log.events[i].rule_id # alert_log.events[j].rule_id

\* The metric names check_alerts maps to a value of the snapshot.
MappedMetrics == {"z_score", "volatility", "price", "rsi"}

\* The rule is skipped: it is disabled or names a metric that is not mapped.
Skipped(rule) == ~rule.enabled \/ rule.metric \notin MappedMetrics

\* An evaluation leaves the counter of a skipped rule alone and appends no
\* event for it, and still triggers a rule matching as in the scenario,
\* wherever it stands among the rules.
SkipsQuietly ==
    IsEvaluation =>
        \A id \in DOMAIN alert_rules.at :
            /\ Skipped(alert_rules.at[id]) =>
                  /\ alert_rules'.at[id] = alert_rules.at[id]
                  /\ EventsOf(alert_log'.appended, id) = 0
            /\ ScenarioMatch(alert_rules.at[id], alert_log'.metrics[1]) =>
                  /\ alert_rules'.at[id].triggered_count
                        = alert_rules.at[id].triggered_count + 1
                  /\ EventsOf(alert_log'.appended, id) = 1

\* C17: a rule that is disabled, or whose metric name is not mapped, is
\* skipped without error: the evaluation leaves its triggered_count alone and
\* appends no event for it, and the remaining rules are still evaluated.
Theorem_C17 == [][SkipsQuietly]_vars

\* C17, witness: an evaluation found a skipped rule first and a matching rule
\* after it, and appended the event of the second one only.
Witness_C17 ==
    /\ alert_log.metrics = Some(ScenarioSnapshot)
    /\ Len(alert_log.rules.keys) = 2
    /\ Skipped(alert_log.rules.at[alert_log.rules.keys[1]])
    /\ ScenarioMatch(alert_log.rules.at[alert_log.rules.keys[2]], ScenarioSnapshot)
    /\ Len(alert_log.appended) = 1
    /\ alert_log.appended[1].rule_id = alert_log.rules.keys[2]

\* The step is an alert-rule command.
IsCommand == command_log'.count # command_log.count

\* An update or delete naming an id that is not in the rule set is answered
\* with an error status and changes nothing of the rule set.
UnknownRejected ==
    (IsCommand /\ command_log'.op \in {"update", "delete"}
               /\ ~Has(alert_rules, command_log'.rule_id))
        => /\ command_log'.status = 404
           /\ alert_rules' = alert_rules

\* C18: an update or delete command naming a rule id that is not in the rule
\* set is rejected with an error and leaves the rule set unchanged.
Theorem_C18 == [][UnknownRejected]_vars

\* C18, witness: an update of an unknown id was rejected while the rule set
\* held a rule that had been triggered.
Witness_C18 ==
    /\ command_log.op = "update"
    /\ command_log.status = 404
    /\ ~Has(alert_rules, command_log.rule_id)
    /\ \E id \in DOMAIN alert_rules.at : alert_rules.at[id].triggered_count >= 1

\* The comparators check_alert_condition knows.
SupportedConditions == {">", "<", ">=", "<=", "==", "!="}

\* C19 as claimed: a create or update command whose metric name or comparator
\* is not one of the supported values is rejected and adds or changes no rule.
Claim_C19 ==
    [][(IsCommand /\ command_log'.op \in {"create", "update"}
                  /\ (command_log'.request[1].metric \notin MappedMetrics
                        \/ command_log'.request[1].condition \notin SupportedConditions))
          => /\ command_log'.status # 200
             /\ alert_rules' = alert_rules]_vars

\* C20 as claimed: for a price history of fewer than 20 prices the backtest
\* result has trade count 0, wins 0 and losses 0, and the derived values
\* win_rate, total_pnl and avg_pnl are present and equal to 0.0.
Claim_C20 ==
    (backtest_log.result # None /\ Len(backtest_log.prices) < BacktestPeriod) =>
        /\ backtest_log.result[1].trades = 0
        /\ backtest_log.result[1].wins = 0
        /\ backtest_log.result[1].losses = 0
        /\ {"win_rate", "total_pnl", "avg_pnl"} \subseteq DOMAIN backtest_log.result[1]
        /\ backtest_log.result[1].win_rate = Zero
        /\ backtest_log.result[1].total_pnl = Zero
        /\ backtest_log.result[1].avg_pnl = Zero

(***************************************************************************)
(* C21: the replay holds at most one position                              *)
(***************************************************************************)
\* Step i of the replay T opens a position, closes one.
Opens(T, i) == T[i - 1].position = None /\ T[i].position # None
Closes(T, i) == T[i - 1].position # None /\ T[i].position = None

\* One step of the replay: an open position is kept as it is or closed, never
\* replaced; exactly the closing steps add a trade, one each; a step that
\* opens a position adds none.
OneStep(T, i) ==
    /\ (T[i - 1].position # None /\ T[i].position # None) => T[i].position = T[i - 1].position
    /\ Opens(T, i) => T[i].position[1].index = i /\ T[i].trades = T[i - 1].trades
    /\ Closes(T, i) => /\ Len(T[i].trades) = Len(T[i - 1].trades) + 1
                       /\ SubSeq(T[i].trades, 1, Len(T[i - 1].trades)) = T[i - 1].trades
    /\ ~Closes(T, i) => T[i].trades = T[i - 1].trades

\* The replay T of n prices with result r: every step is as OneStep says, the
\* trades counted are the positions closed, and of the positions opened at
\* most the last one is not closed; it is then open at the end and not counted.
OnePosition(T, n, r) ==
    LET steps == BacktestPeriod..(n - 1)
        opened == Cardinality({i \in steps : Opens(T, i)})
        closed == Cardinality({i \in steps : Closes(T, i)})
    IN  /\ \A i \in steps : OneStep(T, i)
        /\ r.trades = closed
        /\ r.wins + r.losses = closed
        /\ opened = closed + (IF T[n - 1].position = None THEN 0 ELSE 1)

\* C21: during a backtest replay at most one position is open at any step: a
\* position is opened only when none is open, a step never both closes and
\* opens a position, and a position still open when the history ends
\* contributes no trade to the result.
Theorem_C21 ==
    (backtest_log.result # None /\ Len(backtest_log.prices) >= BacktestPeriod) =>
        OnePosition(BacktestTrace(backtest_log.prices, backtest_log.entry_threshold,
                                  backtest_log.exit_threshold),
                    Len(backtest_log.prices), backtest_log.result[1])

\* A replay that closed a position, opened another one afterwards and ended
\* with it open: one trade in the result.
Witness_C21 ==
    /\ backtest_log.result # None
    /\ Len(backtest_log.prices) = BacktestPeriod + 3
    /\ backtest_log.result[1].trades = 1
    /\ BacktestTrace(backtest_log.prices, backtest_log.entry_threshold,
                     backtest_log.exit_threshold)[Len(backtest_log.prices) - 1].position # None

(***************************************************************************)
(* C22, C23, C26: the queries of the engine                                *)
(***************************************************************************)
\* C22 as claimed: the query operations leave the engine state unchanged for
\* every argument, including an instrument that has never been flushed: the
\* tracked instruments, all histories and the metrics cache are the same
\* before and after the call.  (A step that leaves a query in query_log is
\* the call of that query.)
Claim_C22 ==
    [][query_log'.op # "none" => analytics_engine' = analytics_engine]_vars

\* C23 as claimed: with no flush in between, calling a query operation
\* (latest snapshot, correlation map, cluster assignment) again returns a
\* result identical to its previous call, whatever other query operations
\* were called in between.
Claim_C23 ==
    (/\ query_log.op \in {"get_metrics", "get_correlation_matrix", "cluster_by_correlation"}
     /\ query_log.previous # None)
        => query_log.result = query_log.previous

\* C26 as claimed: get_price_history(symbol, limit) returns, for every
\* limit >= 0, the min(limit, n) most recent of the instrument's n recorded
\* prices, oldest to newest, and never more than limit elements.
Claim_C26 ==
    query_log.op = "get_price_history" =>
        /\ query_log.result[1] =
               LastN(GetDefault(analytics_engine.price_history, query_log.symbol),
                     Min(query_log.limit,
                         Len(GetDefault(analytics_engine.price_history, query_log.symbol))))
        /\ Len(query_log.result[1]) <= query_log.limit

(***************************************************************************)
(* C24, C25: what a query can see                                          *)
(***************************************************************************)
\* C24 as claimed: at every point where a query can run between steps of the
\* flush task, each instrument's state is entirely pre-update or entirely
\* post-update: the cached latest snapshot's timestamp is the newest
\* timestamp of the instrument's history, never a history that holds a window
\* whose snapshot was not cached.  (The states of the model are the points
\* where the sampling task is suspended or between two iterations.)
Claim_C24 ==
    \A s \in Symbols :
        (Has(analytics_engine.timestamp_history, s) /\ Timestamps(s) # <<>>) =>
            /\ Has(analytics_engine.latest_metrics, s)
            /\ analytics_engine.latest_metrics.at[s].timestamp
                   = Timestamps(s)[Len(Timestamps(s))]

\* The two price histories hold the prices of the same flushes, element by
\* element.
Aligned(e) ==
    /\ Has(e.timestamp_history, "BTCUSDT")
    /\ Has(e.timestamp_history, "ETHUSDT")
    /\ e.timestamp_history.at["BTCUSDT"] = e.timestamp_history.at["ETHUSDT"]

\* C25 as claimed: whenever a correlation between two instruments is computed
\* (in process_window, get_correlation_matrix or cluster_by_correlation), the
\* two price sequences used are aligned to the same flush generations;
\* otherwise the correlation is absent.
Claim_C25 ==
    /\ \A i \in 1..Len(call_log) :
          (call_log[i].metrics # None
           /\ call_log[i].metrics[1].correlation_btc_eth # None) => Aligned(analytics_engine)
    /\ (query_log.op = "get_correlation_matrix"
        /\ Has(query_log.result[1], <<"BTCUSDT", "ETHUSDT">>)) => Aligned(analytics_engine)

(***************************************************************************)
(* C27, C30: the indicators                                                *)
(***************************************************************************)
\* C27 as claimed: after processing 21 windows for one instrument whose mean
\* prices rise monotonically from 100 to 120 (100, 101, ..., 120), the latest
\* snapshot has trend = uptrend and rsi > 50.
Claim_C27 ==
    (indicator_log.op = "process_window" /\ indicator_log.values = Ramp(100, 1, 21)) =>
        /\ indicator_log.result[1].trend = "uptrend"
        /\ RLt(R(50), indicator_log.result[1].rsi)

\* C30: calculate_rsi returns exactly 50.0 for every input of length < 15
\* with the default period 14 (in general, length < period + 1).
Theorem_C30 ==
    (indicator_log.op = "calculate_rsi"
     /\ Len(indicator_log.values) < indicator_log.period + 1)
        => indicator_log.result = Some(R(50))

\* The RSI of 14 rising prices with the default period 14 has been computed,
\* and that of 15 rising prices is not 50.
Witness_C30 ==
    /\ indicator_log.op = "calculate_rsi"
    /\ indicator_log.period = 14
    /\ indicator_log.values = Ramp(100, 1, 14)
    /\ indicator_log.result = Some(R(50))
    /\ calculate_rsi(Ramp(100, 1, 15), 14) = R(100)

(***************************************************************************)
(* C28: the sampling task flushes at most once per interval                *)
(***************************************************************************)
\* A step of the sampling task that flushed, and one that did not.
SamplingFlushes == sample_log'.flushes # sample_log.flushes
SamplingSkips == sample_log'.skipped # sample_log.skipped

\* A flush happens only when should_flush is true, it stamps the buffer with
\* the time of the flush, and that stamp is at least 5000 ms after the one the
\* flush found (the construction of the buffer, or the previous flush).
FlushGuarded ==
    SamplingFlushes =>
        /\ should_flush(tick_buffer, now', 5000)
        /\ tick_buffer'.last_flush = Time(now')
        /\ (tick_buffer'.last_flush - tick_buffer.last_flush) * 1000 >= 5000

\* An iteration in which should_flush is false changes neither the buffer
\* (its ticks and its last_flush) nor anything the flush would have fed.
SkipReadsOnly ==
    SamplingSkips =>
        /\ ~should_flush(tick_buffer, now', 5000)
        /\ UNCHANGED <<tick_buffer, analytics_engine, history_log, tick_log, alertVars>>

\* C28: the sampling task calls flush only when should_flush is true, so any
\* two consecutive flushes are at least one interval (5000 ms) apart, and
\* should_flush itself changes no state.
Theorem_C28 == [][FlushGuarded /\ SkipReadsOnly]_vars

\* C28, witness: two flushes have happened, the second one of buffered ticks,
\* and one iteration found should_flush false and went back to sleep.
Witness_C28 ==
    /\ sample_log.flushes = 2
    /\ sample_log.skipped = 1
    /\ sample_log.windows.keys # <<>>
    /\ tick_buffer.last_flush = Time(now)

(***************************************************************************)
(* C29: ingestion and analytics continue after a fault                     *)
(***************************************************************************)
\* A fault has been met: a bad message, a failed flush or a disconnect.
AfterFault == Faulted(fault_log)

\* After a fault, a valid message that is handled still reaches the buffer:
\* one tick more is buffered and counted.
StillBuffers ==
    (AfterFault /\ msg_log'.handled # msg_log.handled /\ msg_log'.well_formed) =>
        /\ msg_log'.on_tick = msg_log.on_tick + 1
        /\ ws_client'.ticks_received = ws_client.ticks_received + 1
        /\ BufferedTicks(tick_buffer'.buffer, tick_buffer'.buffer.keys)
              = BufferedTicks(tick_buffer.buffer, tick_buffer.buffer.keys) + 1

\* After a fault, a flush still emits a window for every instrument with
\* buffered ticks, and unless an exception leaves this flush too, every
\* window gets its snapshot, cached as the latest of its instrument.
StillSamples ==
    (AfterFault /\ sample_log'.flushes # sample_log.flushes) =>
        /\ \A s \in Symbols : Has(sample_log'.windows, s) <=> Buffered(s) # <<>>
        /\ ~Failed(sample_log'.fault, call_log') =>
              \A s \in Symbols :
                  Has(sample_log'.windows, s) =>
                      /\ \E i \in 1..Len(call_log') :
                            /\ call_log'[i].window = sample_log'.windows.at[s]
                            /\ call_log'[i].metrics # None
                      /\ Has(analytics_engine'.latest_metrics, s)
                      /\ analytics_engine'.latest_metrics.at[s].timestamp
                             = sample_log'.windows.at[s].timestamp

\* connect() has not ended: it listens, attempts a connection, sleeps before
\* the next attempt or closes the session on its way to it, and a connection
\* that is made resets the count of failed attempts.
ListenLoopAlive ==
    /\ connect_task.pc \in {"listening", "finally", "connecting", "sleeping"}
    /\ connect_task.exit # "break"
    /\ connect_task.pc = "listening" => ws_client.reconnect_attempts = 0

\* C29 as claimed: ingestion and analytics continue after a fault: after a
\* single bad message, a failure while processing one flush, or a momentary
\* disconnect, later valid ticks are still buffered and a later flush still
\* produces windows and snapshots (the sampling loop and the listen loop do
\* not terminate).  After the disconnect connect() awaits session.close() in
\* its finally block (lines 73-75); when that raises, connect() and
\* websocket_task end and the client listens no more.
Claim_C29 == []ListenLoopAlive /\ [][StillBuffers /\ StillSamples]_vars

(***************************************************************************)
(* C31: calculate_vwap without volume and with uniform volume              *)
(***************************************************************************)
AllZero(volumes) == \A i \in 1..Len(volumes) : volumes[i] = Zero
UniformPositive(volumes) ==
    /\ volumes # <<>>
    /\ RLt(Zero, volumes[1])
    /\ \A i \in 1..Len(volumes) : volumes[i] = volumes[1]

\* C31: calculate_vwap returns 0.0 when all volumes are 0, and for
\* equal-length inputs with the same positive volume on every trade returns
\* the mean of the prices.
Theorem_C31 ==
    indicator_log.op = "calculate_vwap" =>
        /\ AllZero(indicator_log.volumes) => indicator_log.result = Some(Zero)
        /\ (Len(indicator_log.values) = Len(indicator_log.volumes)
            /\ UniformPositive(indicator_log.volumes))
               => indicator_log.result = Some(calculate_mean(indicator_log.values))

\* C31, witness: the vwap of three prices, not all equal, each traded with
\* the volume one half, has been computed and is their mean, which is not 0.
Witness_C31 ==
    /\ indicator_log.op = "calculate_vwap"
    /\ Len(indicator_log.values) = 3
    /\ indicator_log.volumes = <<Rat(1, 2), Rat(1, 2), Rat(1, 2)>>
    /\ indicator_log.values[1] # indicator_log.values[2]
    /\ indicator_log.result = Some(calculate_mean(indicator_log.values))
    /\ indicator_log.result # Some(Zero)

(***************************************************************************)
(* C32: the entry and exit signals of a backtest step                      *)
(***************************************************************************)
\* The 20 prices before step i (an index from 0), their mean and variance.
Before(prices, i) == SubSeq(prices, i - 19, i)
MeanBefore(prices, i) == RDiv(RSum(Before(prices, i)), R(20))
VarBefore(prices, i) ==
    LET m == MeanBefore(prices, i)
    IN  RDiv(RSum([k \in 1..20 |-> RMul(RSub(Before(prices, i)[k], m),
                                        RSub(Before(prices, i)[k], m))]), R(20))

\* The z-score of step i is (price - mean) / std, or 0 when std is 0; for a
\* threshold t >= 0 it is above t, below -t, of absolute value below t.
Deviation(prices, i) == RSub(prices[i + 1], MeanBefore(prices, i))
Beyond(prices, i, t) ==
    /\ VarBefore(prices, i) # Zero
    /\ RLt(RMul(RMul(t, t), VarBefore(prices, i)),
           RMul(Deviation(prices, i), Deviation(prices, i)))
ZAbove(prices, i, t) == Beyond(prices, i, t) /\ RLt(Zero, Deviation(prices, i))
ZBelow(prices, i, t) == Beyond(prices, i, t) /\ RLt(Deviation(prices, i), Zero)
ZWithin(prices, i, t) ==
    /\ RLt(Zero, t)
    /\ \/ VarBefore(prices, i) = Zero
       \/ RLt(RMul(Deviation(prices, i), Deviation(prices, i)),
              RMul(RMul(t, t), VarBefore(prices, i)))

\* The trade that closing position p at price `price` records.
TradeOf(p, price) ==
    [pnl |-> IF p.type = "long" THEN RSub(price, p.price) ELSE RSub(p.price, price),
     type |-> p.type]

\* Step i of the replay T of prices does what the signals say.
StepAsSignalled(T, prices, i, entry_threshold, exit_threshold) ==
    LET price == prices[i + 1]
    IN  IF T[i - 1].position = None
        THEN /\ T[i].trades = T[i - 1].trades
             /\ T[i].position =
                   IF ZAbove(prices, i, entry_threshold)
                   THEN Some([type |-> "short", price |-> price, index |-> i])
                   ELSE IF ZBelow(prices, i, entry_threshold)
                   THEN Some([type |-> "long", price |-> price, index |-> i])
                   ELSE None
        ELSE IF ZWithin(prices, i, exit_threshold)
        THEN /\ T[i].position = None
             /\ T[i].trades = Append(T[i - 1].trades, TradeOf(T[i - 1].position[1], price))
        ELSE T[i] = T[i - 1]

\* C32: in a backtest step with no open position, a z-score above
\* entry_threshold opens a short at the current price and a z-score below
\* -entry_threshold opens a long; with an open position, |z-score| <
\* exit_threshold closes it and records PnL = exit price - entry price for a
\* long and entry price - exit price for a short, where the z-score of step i
\* uses the mean and std of the 20 prices before i, excluding price i.
Theorem_C32 ==
    (backtest_log.result # None /\ Len(backtest_log.prices) >= BacktestPeriod) =>
        \A i \in BacktestPeriod..(Len(backtest_log.prices) - 1) :
            StepAsSignalled(BacktestTrace(backtest_log.prices, backtest_log.entry_threshold,
                                          backtest_log.exit_threshold),
                            backtest_log.prices, i,
                            backtest_log.entry_threshold, backtest_log.exit_threshold)

\* C32, witness: a replay that opened a long at 90, below the mean of the 20
\* prices before it, and closed it one step later at 100 with a PnL of 10.
Witness_C32 ==
    /\ backtest_log.result # None
    /\ Len(backtest_log.prices) >= BacktestPeriod + 2
    /\ backtest_log.prices[BacktestPeriod + 1] = R(90)
    /\ backtest_log.prices[BacktestPeriod + 2] = R(100)
    /\ backtest_log.result[1].trades >= 1
    /\ LET T == BacktestTrace(backtest_log.prices, backtest_log.entry_threshold,
                              backtest_log.exit_threshold)
       IN  /\ T[BacktestPeriod].position
                 = Some([type |-> "long", price |-> R(90), index |-> BacktestPeriod])
           /\ T[BacktestPeriod + 1].trades = <<[pnl |-> R(10), type |-> "long"]>>

(***************************************************************************)
(* The greedy clustering                                                   *)
(***************************************************************************)
\* The correlation the clustering uses between a seed and another
\* instrument: 0 when their histories are empty, differ in length or have no
\* defined correlation.
SeedCorrelation(price_history, seed, other) ==
    IF seed = other THEN AsRoot(R(1))
    ELSE IF \/ Len(price_history.at[seed]) = 0
            \/ Len(price_history.at[seed]) # Len(price_history.at[other])
            \/ calculate_correlation(price_history.at[seed],
                                     price_history.at[other]) = None
    THEN RootZero
    ELSE calculate_correlation(price_history.at[seed], price_history.at[other])[1]

\* The instruments, in the order of the engine's history, that no cluster
\* before the k-th holds.
Unassigned(symbols, clusters, k) ==
    SelectSeq(symbols,
              LAMBDA s : \A c \in 1..(k - 1) :
                             \A m \in 1..Len(clusters[c]) : clusters[c][m] # s)

\* Cluster k is seeded by the first unassigned instrument and holds, after
\* it, every other unassigned instrument that correlates with the seed.
GreedyCluster(price_history, clusters, k, min_correlation) ==
    LET free == Unassigned(price_history.keys, clusters, k)
    IN  /\ free # <<>>
        /\ clusters[k] # <<>>
        /\ clusters[k][1] = free[1]
        /\ Tail(clusters[k])
              = SelectSeq(Tail(free),
                          LAMBDA s : ~RootLt(SeedCorrelation(price_history, free[1], s),
                                             AsRoot(min_correlation)))

\* No member that a seed absorbed is the seed of a cluster.
AbsorbedNeverSeeds(clusters) ==
    \A c \in 1..Len(clusters) :
        \A m \in 2..Len(clusters[c]) :
            \A k \in 1..Len(clusters) : clusters[k][1] # clusters[c][m]

\* The engine fed with windows, asked for the history of an instrument it
\* has no window of, and asked for its clusters.
NextClusters ==
    \/ ProcessWindowCall
    \/ GetPriceHistoryCall({"XRPUSDT"}, {0})
    \/ ClusterCall

SpecClusters == InitStarted /\ [][NextClusters]_vars

\* The result of GET /clustering in the state it was computed in.
Clustered == query_log.op = "cluster_by_correlation" /\ query_log.result # None

\* C33: cluster_by_correlation visits the instruments in the order the
\* engine tracks them (the order of its price history); each instrument not
\* yet assigned seeds a new cluster and absorbs every other unassigned
\* instrument whose correlation to the seed is >= min_correlation, with 0.0
\* for pairs whose correlation is undefined or whose histories differ in
\* length or are empty; an absorbed instrument never seeds a cluster.
Theorem_C33 ==
    Clustered =>
        LET clusters == query_log.result[1]
        IN  /\ \A k \in 1..Len(clusters) :
                   GreedyCluster(analytics_engine.price_history, clusters, k, Rat(7, 10))
            /\ Unassigned(analytics_engine.price_history.keys, clusters,
                          Len(clusters) + 1) = <<>>
            /\ AbsorbedNeverSeeds(clusters)

\* C33, witness: a clustering of three instruments in which the first seed
\* absorbed one instrument and left the third, whose history is empty, to
\* seed its own cluster.
Witness_C33 ==
    /\ Clustered
    /\ Len(analytics_engine.price_history.keys) = 3
    /\ Len(query_log.result[1]) = 2
    /\ Len(query_log.result[1][1]) = 2
    /\ Len(analytics_engine.price_history.at[query_log.result[1][2][1]]) = 0

(***************************************************************************)
(* The replay with the default exit threshold                              *)
(***************************************************************************)
\* A replay made with exit_threshold 0.0, the default.
DefaultExit == backtest_log.result # None /\ backtest_log.exit_threshold = Zero

\* C34 as claimed: with the default exit_threshold of 0.0 the replay never
\* closes a position, so for every price history it reports 0 trades, 0 wins,
\* 0 losses and total_pnl 0.
Claim_C34 ==
    DefaultExit =>
        /\ backtest_log.result[1].trades = 0
        /\ backtest_log.result[1].wins = 0
        /\ backtest_log.result[1].losses = 0
        /\ "total_pnl" \in DOMAIN backtest_log.result[1]
        /\ backtest_log.result[1].total_pnl = Zero

\* The part of C34 that holds: with the default exit_threshold no step of a
\* replay of 20 prices or more closes a position, and the result counts no
\* trade and a total_pnl of 0.
NeverClosesByDefault ==
    (DefaultExit /\ Len(backtest_log.prices) >= BacktestPeriod) =>
        /\ \A i \in BacktestPeriod..(Len(backtest_log.prices) - 1) :
               BacktestTrace(backtest_log.prices, backtest_log.entry_threshold,
                             backtest_log.exit_threshold)[i].trades = <<>>
        /\ backtest_log.result[1].trades = 0
        /\ backtest_log.result[1].wins = 0
        /\ backtest_log.result[1].losses = 0
        /\ backtest_log.result[1].total_pnl = Zero

(***************************************************************************)
(* The connection flag and the listen loop                                 *)
(***************************************************************************)
\* C35 as claimed: is_connected is true only while a live connection is
\* being listened on: once the listen loop has ended (and the session of the
\* lost connection is closed), is_connected is false before the next
\* connection attempt starts.
Claim_C35 ==
    (ws_client # None /\ ws_client.is_connected)
        => connect_task.pc \in {"listening", "finally"}

(***************************************************************************)
(* connect() called again once the retries are exhausted                   *)
(***************************************************************************)
\* The calls of connect() made on one client.
MaxCalls == 2

\* connect() is called again on the client whose connect() has returned: the
\* loop condition of line 42 is evaluated with the reconnect_attempts that
\* the previous call left.
ConnectAgain ==
    /\ connect_task.pc = "returned"
    /\ connect_task.calls < MaxCalls
    /\ connect_task' = [pc |-> LoopHead(ws_client), wait_time |-> None,
                        calls |-> connect_task.calls + 1, exit |-> "none"]
    /\ UNCHANGED <<now, tick_buffer, analytics_engine, ws_client, history_log,
                   call_log, sample_log, tick_log, backoff_log, alertVars, queryVars, readVars>>

\* The connection loop, and connect() called again after it has returned.
NextReconnect ==
    \/ StartConnect
    \/ ConnectSucceeds
    \/ ConnectFails
    \/ BackoffElapses
    \/ ListenEnds
    \/ SessionCloses
    \/ SessionCloseRaises
    \/ ConnectAgain

SpecReconnect == InitStarted /\ [][NextReconnect]_vars

\* reconnect_attempts is within 0..max_reconnect_attempts.
AttemptsInRange ==
    ws_client # None => ws_client.reconnect_attempts \in 0..max_reconnect_attempts

\* A call of connect() made after the retries were exhausted returns with no
\* connection attempt and leaves the client as it was.
AgainAttemptsNothing ==
    (connect_task.pc = "returned" /\ connect_task'.calls > connect_task.calls)
        => /\ connect_task'.pc = "returned"
           /\ ws_client' = ws_client

\* reconnect_attempts goes down only on a successful connect, which sets it to 0.
ResetOnlyBySuccess ==
    (ws_client # None /\ ws_client'.reconnect_attempts < ws_client.reconnect_attempts)
        => /\ connect_task.pc = "connecting"
           /\ connect_task'.pc = "listening"
           /\ ws_client'.is_connected
           /\ ws_client'.reconnect_attempts = 0

\* C36: once the retries are exhausted, calling connect() again on the same
\* client makes no connection attempt, reconnect_attempts being reset only by
\* a successful connect; reconnect_attempts always stays within
\* 0..max_reconnect_attempts.
Theorem_C36 == []AttemptsInRange /\ [][AgainAttemptsNothing /\ ResetOnlyBySuccess]_vars

\* C36, witness: connect() was called a second time with the retries
\* exhausted and has returned.
Witness_C36 ==
    /\ connect_task.calls = 2
    /\ connect_task.pc = "returned"
    /\ ws_client.reconnect_attempts = max_reconnect_attempts

(***************************************************************************)
(* The three histories of an instrument grow together                      *)
(***************************************************************************)
\* The price, volume and timestamp histories of a symbol are equally long.
SameLengths(e, symbol) ==
    /\ Len(GetDefault(e.price_history, symbol)) = Len(GetDefault(e.volume_history, symbol))
    /\ Len(GetDefault(e.price_history, symbol)) = Len(GetDefault(e.timestamp_history, symbol))

\* C37: for every instrument, after any sequence of process_window calls,
\* those that raise included, the price, volume and timestamp sequences have
\* the same length.
Theorem_C37 == \A symbol \in Symbols : SameLengths(analytics_engine, symbol)

\* C37, witness: the last process_window call raised on a full history, and
\* another instrument has a shorter history.
Witness_C37 ==
    /\ call_log # <<>>
    /\ call_log[1].raised
    /\ Len(call_log[1].prices_after) = max_history
    /\ Len(call_log[1].timestamps_after) = max_history
    /\ \E symbol \in Symbols :
           Len(GetDefault(analytics_engine.price_history, symbol)) = 1

(***************************************************************************)
(* The clusters partition the tracked instruments                          *)
(***************************************************************************)
\* The places <<c, m>> of the clusters that hold symbol s.
PlacesOf(clusters, s) ==
    UNION {{<<c, m>> : m \in {k \in 1..Len(clusters[c]) : clusters[c][k] = s}} :
              c \in 1..Len(clusters)}

\* The tracked instruments: the keys of the engine's price history.
Tracked(e) == {e.price_history.keys[k] : k \in 1..Len(e.price_history.keys)}

\* C38: the result of cluster_by_correlation is a partition of the tracked
\* instruments: every tracked instrument is in exactly one cluster, no
\* cluster is empty, and every non-first member of a cluster has correlation
\* >= min_correlation with the first member of the cluster, its seed.
Theorem_C38 ==
    Clustered =>
        LET clusters == query_log.result[1]
        IN  /\ \A s \in Tracked(analytics_engine) : Cardinality(PlacesOf(clusters, s)) = 1
            /\ \A c \in 1..Len(clusters) :
                   /\ clusters[c] # <<>>
                   /\ \A m \in 1..Len(clusters[c]) :
                          clusters[c][m] \in Tracked(analytics_engine)
                   /\ \A m \in 2..Len(clusters[c]) :
                          ~RootLt(SeedCorrelation(analytics_engine.price_history,
                                                  clusters[c][1], clusters[c][m]),
                                  AsRoot(Rat(7, 10)))

\* C38, witness: two tracked instruments with histories of two prices each,
\* clustered together.
Witness_C38 ==
    /\ Clustered
    /\ Len(analytics_engine.price_history.keys) = 2
    /\ query_log.result[1] = <<analytics_engine.price_history.keys>>
    /\ \A s \in Tracked(analytics_engine) : Len(analytics_engine.price_history.at[s]) = 2

(***************************************************************************)
(* The trigger count of a rule                                             *)
(***************************************************************************)
\* The step is an evaluation of the rules by check_alerts.
EvaluationStep == alert_log'.evaluations = alert_log.evaluations + 1

\* The step is an update of rule rule_id that was accepted.
UpdateStep(rule_id) ==
    /\ command_log'.count = command_log.count + 1
    /\ command_log'.op = "update"
    /\ command_log'.rule_id = rule_id
    /\ command_log'.status = 200

\* Over a step that keeps rule rule_id, its count stays or goes up by one,
\* and goes up only in check_alerts.
CountOnlyGrows(rule_id) ==
    /\ alert_rules'.at[rule_id].rule_id = alert_rules.at[rule_id].rule_id
    /\ alert_rules'.at[rule_id].triggered_count
          \in {alert_rules.at[rule_id].triggered_count,
               alert_rules.at[rule_id].triggered_count + 1}
    /\ alert_rules'.at[rule_id].triggered_count # alert_rules.at[rule_id].triggered_count
          => EvaluationStep

\* An accepted update sets the five fields of the request and nothing else.
UpdateSetsFive(rule_id) ==
    UpdateStep(rule_id) =>
        /\ alert_rules'.at[rule_id].symbol = command_log'.request[1].symbol
        /\ alert_rules'.at[rule_id].metric = command_log'.request[1].metric
        /\ alert_rules'.at[rule_id].condition = command_log'.request[1].condition
        /\ alert_rules'.at[rule_id].threshold = command_log'.request[1].threshold
        /\ alert_rules'.at[rule_id].enabled = command_log'.request[1].enabled
        /\ alert_rules'.at[rule_id].rule_id = alert_rules.at[rule_id].rule_id
        /\ alert_rules'.at[rule_id].triggered_count = alert_rules.at[rule_id].triggered_count

\* C39: the triggered_count of a rule never decreases while the rule exists:
\* it changes only by +1 in check_alerts, and update_alert_rule changes
\* symbol, metric, condition, threshold and enabled and leaves rule_id and
\* triggered_count unchanged.
Theorem_C39 ==
    [][\A rule_id \in RuleIdSet :
          (Has(alert_rules, rule_id) /\ Has(alert_rules', rule_id))
              => CountOnlyGrows(rule_id) /\ UpdateSetsFive(rule_id)]_vars

\* C39, witness: a rule that had triggered once was updated to another
\* comparator and still counts one trigger.
Witness_C39 ==
    /\ command_log.op = "update"
    /\ command_log.status = 200
    /\ Has(alert_rules, command_log.rule_id)
    /\ alert_rules.at[command_log.rule_id].triggered_count = 1
    /\ alert_rules.at[command_log.rule_id].condition = "=>"

(***************************************************************************)
(* The counts of a backtest result                                         *)
(***************************************************************************)
\* A backtest result that has its six fields.
AllFields ==
    /\ backtest_log.result # None
    /\ {"trades", "wins", "losses", "win_rate", "total_pnl", "avg_pnl"}
          \subseteq DOMAIN backtest_log.result[1]

\* Every step of the replay T that records a trade closes a position opened
\* at an earlier step.
ExitsAfterEntry(T, last) ==
    \A i \in BacktestPeriod..last :
        T[i].trades # T[i - 1].trades
            => /\ T[i - 1].position # None
               /\ T[i - 1].position[1].index < i
               /\ T[i - 1].position[1].index >= BacktestPeriod

\* C40: in every backtest result with all fields present, wins + losses is
\* the trade count, win_rate is wins divided by the trade count (0.0 when
\* there are no trades), and the exit step of every recorded trade is
\* strictly later than its entry step.
Theorem_C40 ==
    AllFields =>
        /\ backtest_log.result[1].wins + backtest_log.result[1].losses
              = backtest_log.result[1].trades
        /\ backtest_log.result[1].win_rate
              = IF backtest_log.result[1].trades = 0 THEN Zero
                ELSE Rat(backtest_log.result[1].wins, backtest_log.result[1].trades)
        /\ ExitsAfterEntry(BacktestTrace(backtest_log.prices, backtest_log.entry_threshold,
                                         backtest_log.exit_threshold),
                           Len(backtest_log.prices) - 1)

\* C40, witness: a replay whose one trade closed a position at its entry
\* price: a pnl of 0, counted as a loss.
Witness_C40 ==
    /\ AllFields
    /\ backtest_log.result[1].trades = 1
    /\ backtest_log.result[1].wins = 0
    /\ backtest_log.result[1].losses = 1
    /\ backtest_log.result[1].total_pnl = Zero
    /\ backtest_log.result[1].win_rate = Zero

====
